---- MODULE Spec2Model ----
(***************************************************************************)
(* Model of the Pulse dependency graph (src/src/graph): the value types    *)
(* Node and Edge, the Graph container with its forward / reverse adjacency *)
(* indexes, cached DiGraph view and dirty flag, and its queries:           *)
(* find_cycles, topological_sort, validate, get_impact_radius,             *)
(* get_critical_path, get_dependencies, get_dependents, to_networkx and    *)
(* stats.  A query that returns a value is an operator Graph_<name> giving *)
(* that value together with the state the call leaves, and an action       *)
(* <name> that applies it.                                                 *)
(*                                                                         *)
(* Python values are represented as follows.                               *)
(*   dict (insertion ordered) of nodes : sequence of Node records          *)
(*   set of Edge                       : set of Edge records, at most one  *)
(*                                       per (source, target) pair         *)
(*   defaultdict(set)                  : function whose DOMAIN is the set  *)
(*                                       of keys materialised so far       *)
(*   metadata dict                     : set of <<key, value>> pairs       *)
(*   iteration order of a set          : chosen nondeterministically by    *)
(*                                       every call that iterates one      *)
(*   raised exception                  : [exc, msg]; NoException if none   *)
(***************************************************************************)
EXTENDS Integers, Sequences, FiniteSets, TLC

\* ------------------------------------------------------------------ bounds
\* Number of distinct node ids the callers draw from.
NumIds == 3
\* Largest number of edges the graph is grown to: under Spec, under SpecCache
\* and under SpecQueries.
MaxEdges == 5
MaxCacheEdges == 3
MaxQueryEdges == 3
\* The same under SpecTraversal and under SpecLookups.
MaxTraversalEdges == 4
MaxLookupEdges == 4
\* Largest number of nodes the graph is grown to under SpecNodes.
MaxKindNodes == 2
\* Largest number of edges the graph is grown to under SpecRemove.
MaxRemoveEdges == 2
\* Largest number of edges the graph is grown to under SpecBuilder, and the
\* longest argument list a builder call is given.
MaxBuilderEdges == 2
MaxChain == 3
MaxFan == 2
\* Largest number of edges the graph is grown to under SpecRoundTrip and
\* under SpecIngest.
MaxRoundTripEdges == 2
MaxIngestEdges == 1
\* Largest number of edges the graph is grown to under SpecFrame.
MaxFrameEdges == 2

\* Largest number of edges the graph is grown to under SpecBatch, and the
\* length up to which every list of definitions is given to add_nodes and
\* add_dependencies.
MaxBatchEdges == 2
MaxBatch == 2

\* Largest number of edges the graph is grown to under SpecTopology.
MaxTopologyEdges == 4

\* Largest number of edges the graph is grown to under SpecThreads.
MaxThreadEdges == 1

\* Number of WebSocket connections made to the endpoint under SpecSockets.
MaxSockets == 3

\* Largest depth bound a caller passes to get_impact_radius.
MaxDepth == 1

IdPool == <<"a", "b", "c", "d", "e", "f", "g">>
Ids == {IdPool[i] : i \in 1..NumIds}
\* Strings a caller may pass as an id or endpoint: the ids and the empty string.
StrInputs == Ids \cup {""}

\* ------------------------------------------------------------- value types
NodeTypeValues ==
    {"database", "api", "kafka", "cache", "queue", "service", "storage",
     "loadbalancer", "custom"}

NoException == [exc |-> "none", msg |-> ""]
ValueError(msg) == [exc |-> "ValueError", msg |-> msg]

\* Outcome of a constructor: the instance, or the exception it raised.
Built(v) == [raised |-> NoException, value |-> v]
Failed(e) == [raised |-> e, value |-> [source |-> "", target |-> "", metadata |-> {}]]

\* str.lower() on the type strings callers pass.
lower(s) ==
    CASE s = "Database" -> "database"
      [] s = "SERVICE" -> "service"
      [] s = "Widget" -> "widget"
      [] OTHER -> s

\* Edge.__post_init__ without the self-loop check.
Edge_allowing_self_loop(source, target, metadata) ==
    IF source = ""
    THEN [raised |-> [exc |-> "ValueError", msg |-> "Edge source cannot be empty"],
          value |-> [source |-> "", target |-> "", metadata |-> {}]]
    ELSE IF target = ""
    THEN [raised |-> [exc |-> "ValueError", msg |-> "Edge target cannot be empty"],
          value |-> [source |-> "", target |-> "", metadata |-> {}]]
    ELSE [raised |-> [exc |-> "none", msg |-> ""],
          value |-> [source |-> source, target |-> target, metadata |-> metadata]]

\* Edge(source, target, metadata) followed by Edge.__post_init__.
Edge(source, target, metadata) ==
    IF source = "" THEN Failed(ValueError("Edge source cannot be empty"))
    ELSE IF target = "" THEN Failed(ValueError("Edge target cannot be empty"))
    ELSE IF source = target
    THEN Failed(ValueError("Self-loops not allowed: " \o source \o " -> " \o target))
    ELSE Built([source |-> source, target |-> target, metadata |-> metadata])

\* Edge.__eq__: equality on the endpoint pair only.
EdgeEq(e, f) == e.source = f.source /\ e.target = f.target

\* Membership under the equality a dataclass generates: every field compared.
EdgeIn_all_fields(e, es) == e \in es

\* `edge in self.edges` under Edge.__hash__ / Edge.__eq__.
EdgeIn(e, es) == \E f \in es : EdgeEq(e, f)

\* Node(id, type, metadata) followed by Node.__post_init__, for a textual type.
Node(id, type, metadata) ==
    IF id = ""
    THEN [raised |-> ValueError("Node id cannot be empty"),
          value |-> [id |-> "", type |-> "custom", metadata |-> {}]]
    ELSE IF lower(type) \in NodeTypeValues
    THEN [raised |-> NoException,
          value |-> [id |-> id, type |-> lower(type), metadata |-> metadata]]
    ELSE [raised |-> NoException,
          value |-> [id |-> id, type |-> "custom",
                     metadata |->
                        IF \E kv \in metadata : kv[1] = "original_type"
                        THEN metadata
                        ELSE metadata \cup {<<"original_type", "NodeType.CUSTOM">>}]]

\* ------------------------------------------------------------------- state
VARIABLES
    nodes,              \* Graph.nodes: insertion-ordered dict id -> Node
    edges,              \* Graph.edges: set of Edge
    adjacency,          \* Graph._adjacency: defaultdict(set), source -> targets
    reverse_adjacency,  \* Graph._reverse_adjacency: defaultdict(set), target -> sources
    nx_graph,           \* Graph._nx_graph: the cached derived view, or None
    dirty,              \* Graph._dirty
    call,               \* the method called last: [op, args], the arguments kept for a mutation
    raised,             \* the exception the last call raised, or NoException
    ret,                \* the value the last call returned
    running,            \* the calls in progress when calls overlap: where the thread
                        \* in to_networkx and the thread in a mutation stand
    active_connections, \* ConnectionManager.active_connections: set of WebSocket
    handlers,           \* where the websocket_endpoint coroutine of each WebSocket stands
    broadcasting        \* ConnectionManager.broadcast in progress: its locals and
                        \* its iterator over active_connections

vars ==
    <<nodes, edges, adjacency, reverse_adjacency, nx_graph, dirty, call, raised, ret,
      running, active_connections, handlers, broadcasting>>
graph == <<nodes, edges, adjacency, reverse_adjacency, nx_graph, dirty>>
sockets == <<active_connections, handlers, broadcasting>>

None == [some |-> FALSE, v |-> <<>>]
Some(x) == [some |-> TRUE, v |-> x]

\* max_depth arguments: None (unbounded) or an integer.
Unbounded == [some |-> FALSE, v |-> 0]
DepthInputs == {Unbounded} \cup {Some(k) : k \in (0 - 1)..MaxDepth}

\* Keys of the nodes dict, and the keys in insertion order.
NodeIds == {nodes[i].id : i \in 1..Len(nodes)}
NodeOrder == [i \in 1..Len(nodes) |-> nodes[i].id]
NodeAt(id) == nodes[CHOOSE i \in 1..Len(nodes) : nodes[i].id = id]

EmptyIndex == [k \in {} |-> {}]

\* No call in progress.  Of a to_networkx in progress: the statement reached
\* (reader), the position and the order of the loop it is in (i, order), the
\* size its iterator saw when created (used) and the sizes of nodes and edges
\* when the rebuild began (began).  Of a mutation in progress: whether the
\* assignment to _dirty is still to come (writer).
Idle ==
    [reader |-> "idle", writer |-> "idle", i |-> 0, used |-> 0, order |-> <<>>,
     began |-> <<0, 0>>]

\* defaultdict.__getitem__: a missing key is inserted with an empty set.
Touch(index, k) == IF k \in DOMAIN index THEN index ELSE index @@ (k :> {})
\* dict.get(k, set()): no insertion.
Get(index, k) == IF k \in DOMAIN index THEN index[k] ELSE {}
\* index[k] = {v}: the set replaced instead of extended.
IndexAdd_replacing(index, k, v) == [Touch(index, k) EXCEPT ![k] = {v}]

\* index[k].add(v)
IndexAdd(index, k, v) == [Touch(index, k) EXCEPT ![k] = @ \cup {v}]

\* The WebSocket objects the server hands to websocket_endpoint, one per
\* connection made.
Sockets ==
    LET SocketPool == <<"ws1", "ws2", "ws3", "ws4", "ws5">> IN
    {SocketPool[i] : i \in 1..MaxSockets}

\* The coroutine websocket_endpoint(websocket) before it is started: `pc` is
\* the await it stands at ("accept", "initial", "receive", "ping") or
\* "new" / "ended"; `ended_by` is the exception that ended it.
NotStarted == [pc |-> "new", ended_by |-> ""]

\* No broadcast has been made.  Of a broadcast: `pc` is "sending" while it
\* awaits connection.send_text, "done" once it has returned and "raised" once
\* it has raised `error`; current, rest and used are the connection the loop
\* holds, the connections its set iterator has yet to yield and the size the
\* iterator saw when created; disconnected is the local set.  The others
\* record the call: the set it found, the connections it sent to, those whose
\* send raised and those removed by disconnect() meanwhile.
NoBroadcast ==
    [pc |-> "idle", current |-> "", rest |-> <<>>, used |-> 0, disconnected |-> {},
     error |-> NoException, started |-> {}, attempted |-> {}, failed |-> {}, left |-> {}]

\* Graph.__init__
Init ==
    /\ nodes = <<>>
    /\ edges = {}
    /\ adjacency = EmptyIndex
    /\ reverse_adjacency = EmptyIndex
    /\ nx_graph = None
    /\ dirty = TRUE
    /\ call = [op |-> "__init__", args |-> <<>>]
    /\ raised = NoException
    /\ ret = None
    /\ running = Idle
    /\ active_connections = {}
    /\ handlers = [w \in Sockets |-> NotStarted]
    /\ broadcasting = NoBroadcast

\* --------------------------------------------------------------- mutations
\* add_node as a plain dict assignment: a second node under the id replaces
\* the first.
Graph_add_node_overwriting(node) ==
    /\ nodes' = IF node.id \in NodeIds
                THEN [i \in 1..Len(nodes) |->
                        IF nodes[i].id = node.id THEN node ELSE nodes[i]]
                ELSE Append(nodes, node)
    /\ dirty' = TRUE
    /\ raised' = NoException
    /\ UNCHANGED <<edges, adjacency, reverse_adjacency, nx_graph>>

\* Graph.add_node(node)
Graph_add_node(node) ==
    IF node.id \in NodeIds
    THEN /\ raised' = ValueError("Node with id '" \o node.id \o "' already exists")
         /\ UNCHANGED graph
    ELSE /\ nodes' = Append(nodes, node)
         /\ dirty' = TRUE
         /\ raised' = NoException
         /\ UNCHANGED <<edges, adjacency, reverse_adjacency, nx_graph>>

\* graph.add_node(Node(id, type, metadata)): the constructor, then the insert.
add_node(id, type, metadata) ==
    /\ UNCHANGED <<running, sockets>>
    /\ call' = [op |-> "add_node", args |-> <<id, type, metadata>>]
    /\ ret' = None
    /\ LET n == Node(id, type, metadata) IN
       IF n.raised # NoException
       THEN raised' = n.raised /\ UNCHANGED graph
       ELSE Graph_add_node(n.value)

\* add_edge that checks the source only.
Graph_add_edge_unchecked_target(edge) ==
    IF edge.source \notin NodeIds
    THEN /\ raised' = ValueError("Source node '" \o edge.source \o "' does not exist")
         /\ UNCHANGED graph
    ELSE /\ raised' = NoException
         /\ IF ~EdgeIn(edge, edges)
            THEN /\ edges' = edges \cup {edge}
                 /\ adjacency' = IndexAdd(adjacency, edge.source, edge.target)
                 /\ reverse_adjacency' = IndexAdd(reverse_adjacency, edge.target, edge.source)
                 /\ dirty' = TRUE
                 /\ UNCHANGED <<nodes, nx_graph>>
            ELSE UNCHANGED graph

\* add_edge that checks the target before the source.
Graph_add_edge_target_first(edge) ==
    IF edge.target \notin NodeIds
    THEN /\ raised' = ValueError("Target node '" \o edge.target \o "' does not exist")
         /\ UNCHANGED graph
    ELSE IF edge.source \notin NodeIds
    THEN /\ raised' = ValueError("Source node '" \o edge.source \o "' does not exist")
         /\ UNCHANGED graph
    ELSE /\ raised' = NoException
         /\ IF ~EdgeIn(edge, edges)
            THEN /\ edges' = edges \cup {edge}
                 /\ adjacency' = IndexAdd(adjacency, edge.source, edge.target)
                 /\ reverse_adjacency' = IndexAdd(reverse_adjacency, edge.target, edge.source)
                 /\ dirty' = TRUE
                 /\ UNCHANGED <<nodes, nx_graph>>
            ELSE UNCHANGED graph

\* add_edge that leaves the dirty flag as it is.
Graph_add_edge_keeping_clean(edge) ==
    IF edge.source \notin NodeIds
    THEN /\ raised' = ValueError("Source node '" \o edge.source \o "' does not exist")
         /\ UNCHANGED graph
    ELSE IF edge.target \notin NodeIds
    THEN /\ raised' = ValueError("Target node '" \o edge.target \o "' does not exist")
         /\ UNCHANGED graph
    ELSE /\ raised' = NoException
         /\ IF ~EdgeIn(edge, edges)
            THEN /\ edges' = edges \cup {edge}
                 /\ adjacency' = IndexAdd(adjacency, edge.source, edge.target)
                 /\ reverse_adjacency' = IndexAdd(reverse_adjacency, edge.target, edge.source)
                 /\ UNCHANGED <<nodes, nx_graph, dirty>>
            ELSE UNCHANGED graph

\* add_edge that records the edge in the forward index only.
Graph_add_edge_forward_only(edge) ==
    IF edge.source \notin NodeIds
    THEN /\ raised' = ValueError("Source node '" \o edge.source \o "' does not exist")
         /\ UNCHANGED graph
    ELSE IF edge.target \notin NodeIds
    THEN /\ raised' = ValueError("Target node '" \o edge.target \o "' does not exist")
         /\ UNCHANGED graph
    ELSE /\ raised' = NoException
         /\ IF ~EdgeIn(edge, edges)
            THEN /\ edges' = edges \cup {edge}
                 /\ adjacency' = IndexAdd(adjacency, edge.source, edge.target)
                 /\ dirty' = TRUE
                 /\ UNCHANGED <<nodes, reverse_adjacency, nx_graph>>
            ELSE UNCHANGED graph

\* Graph.add_edge(edge)
Graph_add_edge(edge) ==
    IF edge.source \notin NodeIds
    THEN /\ raised' = ValueError("Source node '" \o edge.source \o "' does not exist")
         /\ UNCHANGED graph
    ELSE IF edge.target \notin NodeIds
    THEN /\ raised' = ValueError("Target node '" \o edge.target \o "' does not exist")
         /\ UNCHANGED graph
    ELSE /\ raised' = NoException
         /\ IF ~EdgeIn(edge, edges)
            THEN /\ edges' = edges \cup {edge}
                 /\ adjacency' = IndexAdd(adjacency, edge.source, edge.target)
                 /\ reverse_adjacency' = IndexAdd(reverse_adjacency, edge.target, edge.source)
                 /\ dirty' = TRUE
                 /\ UNCHANGED <<nodes, nx_graph>>
            ELSE UNCHANGED graph

\* graph.add_edge(Edge(source, target, metadata)): the constructor, then the insert.
add_edge(source, target, metadata) ==
    /\ UNCHANGED <<running, sockets>>
    /\ call' = [op |-> "add_edge", args |-> <<source, target, metadata>>]
    /\ ret' = None
    /\ LET e == Edge(source, target, metadata) IN
       IF e.raised # NoException
       THEN raised' = e.raised /\ UNCHANGED graph
       ELSE Graph_add_edge(e.value)

\* The error of an operation that targets an id absent from nodes.  The
\* service raises it as a ValueError, which the delete route turns into a 404.
UnknownNode(node_id) == ValueError("Node '" \o node_id \o "' not found")

\* index with the key node_id dropped and node_id taken out of every set.
IndexWithout(index, node_id) ==
    [k \in DOMAIN index \ {node_id} |-> index[k] \ {node_id}]

\* A removal that forgets the edges pointing at the node: only the node and
\* its outgoing edges go.
Graph_remove_node_outgoing_only(node_id) ==
    IF node_id \notin NodeIds
    THEN /\ raised' = UnknownNode(node_id)
         /\ UNCHANGED graph
    ELSE LET Kept(n) == n.id # node_id IN
         /\ raised' = NoException
         /\ nodes' = SelectSeq(nodes, Kept)
         /\ edges' = {e \in edges : e.source # node_id}
         /\ adjacency' = [k \in DOMAIN adjacency \ {node_id} |-> adjacency[k]]
         /\ reverse_adjacency' =
                [k \in DOMAIN reverse_adjacency |-> reverse_adjacency[k] \ {node_id}]
         /\ dirty' = TRUE
         /\ UNCHANGED nx_graph

\* The graph's delete operation: the node goes with every edge in which it
\* is source or target, both indexes follow, and the derived view is stale.
Graph_remove_node(node_id) ==
    IF node_id \notin NodeIds
    THEN /\ raised' = UnknownNode(node_id)
         /\ UNCHANGED graph
    ELSE LET Kept(n) == n.id # node_id IN
         /\ raised' = NoException
         /\ nodes' = SelectSeq(nodes, Kept)
         /\ edges' = {e \in edges : e.source # node_id /\ e.target # node_id}
         /\ adjacency' = IndexWithout(adjacency, node_id)
         /\ reverse_adjacency' = IndexWithout(reverse_adjacency, node_id)
         /\ dirty' = TRUE
         /\ UNCHANGED nx_graph

\* graph_service.delete_node(node_id), as the route DELETE /nodes/{node_id} calls it.
delete_node(node_id) ==
    /\ UNCHANGED <<running, sockets>>
    /\ call' = [op |-> "delete_node", args |-> <<node_id>>]
    /\ ret' = None
    /\ Graph_remove_node(node_id)

\* ------------------------------------------------------------ graph objects
\* A Graph as a value: the object the variables hold, and a fresh Graph().
\* A parser fills a fresh one; a builder call makes several insertions into
\* its graph before it returns.
GraphOf ==
    [nodes |-> nodes, edges |-> edges, adjacency |-> adjacency,
     reverse_adjacency |-> reverse_adjacency, nx_graph |-> nx_graph, dirty |-> dirty]

NewGraph ==
    [nodes |-> <<>>, edges |-> {}, adjacency |-> EmptyIndex,
     reverse_adjacency |-> EmptyIndex, nx_graph |-> None, dirty |-> TRUE]

\* The variables come to hold the graph g.
Becomes(g) ==
    /\ nodes' = g.nodes
    /\ edges' = g.edges
    /\ adjacency' = g.adjacency
    /\ reverse_adjacency' = g.reverse_adjacency
    /\ nx_graph' = g.nx_graph
    /\ dirty' = g.dirty

\* Outcome of a call on a graph value: the exception raised, the graph left.
Done(g) == [raised |-> NoException, graph |-> g]
Raise(e, g) == [raised |-> e, graph |-> g]

\* Graph.add_node(node) on the graph g.
Graph_add_node_on(g, node) ==
    IF \E i \in 1..Len(g.nodes) : g.nodes[i].id = node.id
    THEN Raise(ValueError("Node with id '" \o node.id \o "' already exists"), g)
    ELSE Done([g EXCEPT !.nodes = Append(@, node), !.dirty = TRUE])

\* Graph.add_edge(edge) on the graph g.
Graph_add_edge_on(g, edge) ==
    LET ids == {g.nodes[i].id : i \in 1..Len(g.nodes)} IN
    IF edge.source \notin ids
    THEN Raise(ValueError("Source node '" \o edge.source \o "' does not exist"), g)
    ELSE IF edge.target \notin ids
    THEN Raise(ValueError("Target node '" \o edge.target \o "' does not exist"), g)
    ELSE IF ~EdgeIn(edge, g.edges)
    THEN Done([g EXCEPT !.edges = @ \cup {edge},
                        !.adjacency = IndexAdd(@, edge.source, edge.target),
                        !.reverse_adjacency = IndexAdd(@, edge.target, edge.source),
                        !.dirty = TRUE])
    ELSE Done(g)

\* ------------------------------------------------------------ GraphBuilder
\* GraphBuilder.add_dependency(source, target) on the builder's graph g.
add_dependency(g, source, target) ==
    LET e == Edge(source, target, {}) IN
    IF e.raised # NoException THEN Raise(e.raised, g)
    ELSE Graph_add_edge_on(g, e.value)

\* The loop of add_chain from index i on (range(len(node_ids) - 1), 1-based
\* here): an exception leaves the loop with the insertions made so far.
RECURSIVE add_chain_loop(_, _, _)
add_chain_loop(g, node_ids, i) ==
    IF i > Len(node_ids) - 1 THEN Done(g)
    ELSE LET r == add_dependency(g, node_ids[i], node_ids[i + 1]) IN
         IF r.raised # NoException THEN r
         ELSE add_chain_loop(r.graph, node_ids, i + 1)

\* The loop of add_fanout: for target in targets.
RECURSIVE add_fanout_loop(_, _, _, _)
add_fanout_loop(g, source, targets, i) ==
    IF i > Len(targets) THEN Done(g)
    ELSE LET r == add_dependency(g, source, targets[i]) IN
         IF r.raised # NoException THEN r
         ELSE add_fanout_loop(r.graph, source, targets, i + 1)

\* The loop of add_fanin with the two arguments of add_dependency exchanged.
RECURSIVE add_fanin_loop_outward(_, _, _, _)
add_fanin_loop_outward(g, target, sources, i) ==
    IF i > Len(sources) THEN Done(g)
    ELSE LET r == add_dependency(g, target, sources[i]) IN
         IF r.raised # NoException THEN r
         ELSE add_fanin_loop_outward(r.graph, target, sources, i + 1)

\* The loop of add_fanin: for source in sources.
RECURSIVE add_fanin_loop(_, _, _, _)
add_fanin_loop(g, target, sources, i) ==
    IF i > Len(sources) THEN Done(g)
    ELSE LET r == add_dependency(g, sources[i], target) IN
         IF r.raised # NoException THEN r
         ELSE add_fanin_loop(r.graph, target, sources, i + 1)

\* builder.add_chain(*node_ids)
add_chain(node_ids) ==
    LET r == add_chain_loop(GraphOf, node_ids, 1) IN
    /\ UNCHANGED <<running, sockets>>
    /\ call' = [op |-> "add_chain", args |-> <<node_ids>>]
    /\ ret' = None
    /\ raised' = r.raised
    /\ Becomes(r.graph)

\* builder.add_fanout(source, *targets)
add_fanout(source, targets) ==
    LET r == add_fanout_loop(GraphOf, source, targets, 1) IN
    /\ UNCHANGED <<running, sockets>>
    /\ call' = [op |-> "add_fanout", args |-> <<source, targets>>]
    /\ ret' = None
    /\ raised' = r.raised
    /\ Becomes(r.graph)

\* builder.add_fanin(target, *sources)
add_fanin(target, sources) ==
    LET r == add_fanin_loop(GraphOf, target, sources, 1) IN
    /\ UNCHANGED <<running, sockets>>
    /\ call' = [op |-> "add_fanin", args |-> <<target, sources>>]
    /\ ret' = None
    /\ raised' = r.raised
    /\ Becomes(r.graph)

\* ------------------------------------------------------- iteration orders
\* All sequences that enumerate the set S once each.
RECURSIVE Perms(_)
Perms(S) ==
    IF S = {} THEN {<<>>}
    ELSE UNION {{<<x>> \o p : p \in Perms(S \ {x})} : x \in S}

NoOrders == [k \in {} |-> <<>>]

\* The ways the sets stored in `index` can be iterated: one enumeration of
\* index[k] for every k in K (the empty one for a key not materialised).
RECURSIVE IterOrders(_, _)
IterOrders(index, K) ==
    IF K = {} THEN {NoOrders}
    ELSE LET k == CHOOSE x \in K : TRUE IN
         {f @@ (k :> p) : f \in IterOrders(index, K \ {k}), p \in Perms(Get(index, k))}

\* Nodes reachable from the set `front` along the pairs of P, front included.
RECURSIVE Closure(_, _)
Closure(P, front) ==
    LET next == front \cup {p[2] : p \in {q \in P : q[1] \in front}} IN
    IF next = front THEN front ELSE Closure(P, next)

\* The <<key, member>> pairs an index holds.
IndexPairs(index) == UNION {{<<k, v>> : v \in index[k]} : k \in DOMAIN index}

\* The keys whose sets a breadth-first traversal of `index` from `start` can
\* come to iterate: no other set's order is ever consulted by it.
Traversed(index, start) == Closure(IndexPairs(index), {start}) \cap NodeIds

OrderOf(ord, k) == IF k \in DOMAIN ord THEN ord[k] ELSE <<>>

\* list.index(x): position of the first occurrence (1-based here).
IndexOf(list, x) ==
    CHOOSE i \in 1..Len(list) : list[i] = x /\ \A j \in 1..(i - 1) : list[j] # x

\* ------------------------------------------------------------- find_cycles
\* The closure dfs(node_id) of find_cycles, acting on the enclosing locals
\* st = [visited, rec_stack, path, cycles] and on self._adjacency, whose sets
\* are iterated in the orders `ord`.
RECURSIVE dfs(_, _, _), dfs_neighbors(_, _, _, _)
dfs(st, node_id, ord) ==
    LET entered == [st EXCEPT !.visited = @ \cup {node_id},
                              !.rec_stack = @ \cup {node_id},
                              !.path = Append(@, node_id),
                              !.adjacency = Touch(@, node_id)]
        looped == dfs_neighbors(entered, node_id, ord, 1)
    IN [looped EXCEPT !.path = SubSeq(@, 1, Len(@) - 1),
                      !.rec_stack = @ \ {node_id}]

\* The loop reporting the whole path instead of its slice from cycle_start:
\* `cycle = path + [neighbor]`.
RECURSIVE dfs_neighbors_whole_path(_, _, _, _)
dfs_neighbors_whole_path(st, node_id, ord, i) ==
    IF i > Len(OrderOf(ord, node_id)) THEN st
    ELSE LET neighbor == OrderOf(ord, node_id)[i]
             after ==
                IF neighbor \notin st.visited THEN dfs(st, neighbor, ord)
                ELSE IF neighbor \in st.rec_stack
                THEN [st EXCEPT !.cycles = Append(@, st.path \o <<neighbor>>)]
                ELSE st
         IN dfs_neighbors_whole_path(after, node_id, ord, i + 1)

\* The loop `for neighbor in self._adjacency[node_id]`, from the i-th neighbor on.
dfs_neighbors(st, node_id, ord, i) ==
    IF i > Len(OrderOf(ord, node_id)) THEN st
    ELSE LET neighbor == OrderOf(ord, node_id)[i]
             after ==
                IF neighbor \notin st.visited THEN dfs(st, neighbor, ord)
                ELSE IF neighbor \in st.rec_stack
                THEN LET cycle_start == IndexOf(st.path, neighbor)
                         cycle == SubSeq(st.path, cycle_start, Len(st.path)) \o <<neighbor>>
                     IN [st EXCEPT !.cycles = Append(@, cycle)]
                ELSE st
         IN dfs_neighbors(after, node_id, ord, i + 1)

\* The loop starting every search with an empty `visited`: each node is
\* searched from as if none had been seen.
RECURSIVE find_cycles_roots_fresh_search(_, _, _)
find_cycles_roots_fresh_search(st, ord, i) ==
    IF i > Len(nodes) THEN st
    ELSE find_cycles_roots_fresh_search(
            dfs([st EXCEPT !.visited = {}], nodes[i].id, ord), ord, i + 1)

\* The loop `for node_id in self.nodes`, from the i-th key on.
RECURSIVE find_cycles_roots(_, _, _)
find_cycles_roots(st, ord, i) ==
    IF i > Len(nodes) THEN st
    ELSE find_cycles_roots(
            IF nodes[i].id \notin st.visited THEN dfs(st, nodes[i].id, ord) ELSE st,
            ord, i + 1)

\* find_cycles that searches from the first node only.
Graph_find_cycles_first_root(adj, ord) ==
    LET start == [visited |-> {}, rec_stack |-> {}, path |-> <<>>, cycles |-> <<>>,
                  adjacency |-> adj]
        st == IF nodes = <<>> THEN start ELSE dfs(start, nodes[1].id, ord)
    IN [cycles |-> st.cycles, adjacency |-> st.adjacency]

\* Graph.find_cycles() run on the index `adj`: [cycles, adjacency], the list
\* returned and self._adjacency as the call leaves it.
Graph_find_cycles(adj, ord) ==
    LET st == find_cycles_roots(
                [visited |-> {}, rec_stack |-> {}, path |-> <<>>, cycles |-> <<>>,
                 adjacency |-> adj], ord, 1)
    IN [cycles |-> st.cycles, adjacency |-> st.adjacency]

find_cycles ==
    \E ord \in IterOrders(adjacency, NodeIds) :
        LET r == Graph_find_cycles(adjacency, ord) IN
        /\ UNCHANGED <<running, sockets>>
        /\ call' = [op |-> "find_cycles", args |-> <<>>]
        /\ ret' = Some(r.cycles)
        /\ raised' = NoException
        /\ adjacency' = r.adjacency
        /\ UNCHANGED <<nodes, edges, reverse_adjacency, nx_graph, dirty>>

\* -------------------------------------------------------- topological_sort
\* The while loop of Kahn's algorithm on st = [queue, result, in_degree,
\* adjacency]; kahn_neighbors is its inner loop over self._adjacency[node_id].
RECURSIVE kahn(_, _), kahn_neighbors(_, _, _, _)
kahn(st, ord) ==
    IF st.queue = <<>> THEN st
    ELSE LET node_id == Head(st.queue)
             popped == [st EXCEPT !.queue = Tail(@),
                                  !.result = Append(@, node_id),
                                  !.adjacency = Touch(@, node_id)]
         IN kahn(kahn_neighbors(popped, node_id, ord, 1), ord)

kahn_neighbors(st, node_id, ord, i) ==
    IF i > Len(OrderOf(ord, node_id)) THEN st
    ELSE LET neighbor == OrderOf(ord, node_id)[i]
             degree == st.in_degree[neighbor] - 1
             lowered == [st EXCEPT !.in_degree[neighbor] = degree]
         IN kahn_neighbors(
                IF degree = 0 THEN [lowered EXCEPT !.queue = Append(@, neighbor)]
                ELSE lowered,
                node_id, ord, i + 1)

\* The dict comprehension of in_degree touches self._reverse_adjacency[node_id]
\* for every key of self.nodes.
RECURSIVE TouchAll(_, _)
TouchAll(index, K) ==
    IF K = {} THEN index
    ELSE LET k == CHOOSE x \in K : TRUE IN TouchAll(Touch(index, k), K \ {k})

\* topological_sort without the cycle check and without the length check.
Graph_topological_sort_unchecked(adj, rev, ord) ==
    LET in_degree == [id \in NodeIds |-> Cardinality(Get(rev, id))]
        IsReady(id) == in_degree[id] = 0
        st == kahn([queue |-> SelectSeq(NodeOrder, IsReady),
                    result |-> <<>>,
                    in_degree |-> in_degree,
                    adjacency |-> adj], ord)
    IN [value |-> Some(st.result),
        adjacency |-> st.adjacency,
        reverse_adjacency |-> TouchAll(rev, NodeIds)]

\* topological_sort with the edge direction confused: degrees counted on the
\* forward index, neighbors taken from the reverse index.
Graph_topological_sort_reversed(adj, rev, ord) ==
    LET fc == Graph_find_cycles(adj, ord) IN
    IF fc.cycles # <<>>
    THEN [value |-> None, adjacency |-> fc.adjacency, reverse_adjacency |-> rev]
    ELSE LET in_degree == [id \in NodeIds |-> Cardinality(Get(adj, id))]
             IsReady(id) == in_degree[id] = 0
             back == CHOOSE o \in IterOrders(rev, NodeIds) : TRUE
             st == kahn([queue |-> SelectSeq(NodeOrder, IsReady),
                         result |-> <<>>,
                         in_degree |-> in_degree,
                         adjacency |-> rev], back)
         IN [value |-> IF Len(st.result) = Len(nodes) THEN Some(st.result) ELSE None,
             adjacency |-> TouchAll(fc.adjacency, NodeIds),
             reverse_adjacency |-> st.adjacency]

\* Graph.topological_sort() run on the indexes adj and rev:
\* [value, adjacency, reverse_adjacency].
Graph_topological_sort(adj, rev, ord) ==
    LET fc == Graph_find_cycles(adj, ord) IN
    IF fc.cycles # <<>>
    THEN [value |-> None, adjacency |-> fc.adjacency, reverse_adjacency |-> rev]
    ELSE LET in_degree == [id \in NodeIds |-> Cardinality(Get(rev, id))]
             IsReady(id) == in_degree[id] = 0
             st == kahn([queue |-> SelectSeq(NodeOrder, IsReady),
                         result |-> <<>>,
                         in_degree |-> in_degree,
                         adjacency |-> fc.adjacency], ord)
         IN [value |-> IF Len(st.result) = Len(nodes) THEN Some(st.result) ELSE None,
             adjacency |-> st.adjacency,
             reverse_adjacency |-> TouchAll(rev, NodeIds)]

topological_sort ==
    \E ord \in IterOrders(adjacency, NodeIds) :
        LET r == Graph_topological_sort(adjacency, reverse_adjacency, ord) IN
        /\ UNCHANGED <<running, sockets>>
        /\ call' = [op |-> "topological_sort", args |-> <<>>]
        /\ ret' = r.value
        /\ raised' = NoException
        /\ adjacency' = r.adjacency
        /\ reverse_adjacency' = r.reverse_adjacency
        /\ UNCHANGED <<nodes, edges, nx_graph, dirty>>

\* ---------------------------------------------------------------- validate
\* " -> ".join(cycle)
RECURSIVE join(_, _)
join(sep, list) ==
    IF list = <<>> THEN ""
    ELSE IF Len(list) = 1 THEN list[1]
    ELSE list[1] \o sep \o join(sep, Tail(list))

\* The messages the first loop of validate appends for one edge.
orphan_errors(edge) ==
    (IF edge.source \notin NodeIds
     THEN <<"Edge references non-existent source node: " \o edge.source>>
     ELSE <<>>)
    \o
    (IF edge.target \notin NodeIds
     THEN <<"Edge references non-existent target node: " \o edge.target>>
     ELSE <<>>)

RECURSIVE orphan_pass(_)
orphan_pass(edge_list) ==
    IF edge_list = <<>> THEN <<>>
    ELSE orphan_errors(Head(edge_list)) \o orphan_pass(Tail(edge_list))

\* The second loop of validate leaving after the first cycle.
cycle_errors_first_only(cycles) ==
    IF cycles = <<>> THEN <<>>
    ELSE <<"Cycle detected: " \o join(" -> ", cycles[1])>>

\* The second loop of validate: one message per cycle.
cycle_errors(cycles) ==
    [i \in 1..Len(cycles) |-> "Cycle detected: " \o join(" -> ", cycles[i])]

\* The edges for which the first loop appends something; the others leave
\* `errors` as it is wherever they come in the iteration.
Orphans == {e \in edges : orphan_errors(e) # <<>>}

\* Graph.validate() with self.edges iterated in an order that meets the
\* orphaned edges as edge_list: [errors, adjacency].
Graph_validate(adj, edge_list, ord) ==
    LET fc == Graph_find_cycles(adj, ord) IN
    [errors |-> orphan_pass(edge_list) \o cycle_errors(fc.cycles),
     adjacency |-> fc.adjacency]

validate ==
    \E edge_list \in Perms(Orphans), ord \in IterOrders(adjacency, NodeIds) :
        LET r == Graph_validate(adjacency, edge_list, ord) IN
        /\ UNCHANGED <<running, sockets>>
        /\ call' = [op |-> "validate", args |-> <<>>]
        /\ ret' = Some(r.errors)
        /\ raised' = NoException
        /\ adjacency' = r.adjacency
        /\ UNCHANGED <<nodes, edges, reverse_adjacency, nx_graph, dirty>>

\* -------------------------------------------- impact radius, critical path
\* The while loop of get_impact_radius on st = [queue, visited, impacted,
\* reverse_adjacency]; impact_dependents is its inner loop.
RECURSIVE impact_bfs(_, _, _), impact_dependents(_, _, _, _, _)
\* The inner loop queueing a dependent at the depth of its parent:
\* `queue.append((dependent, depth))`.
RECURSIVE impact_dependents_same_depth(_, _, _, _, _)
impact_dependents_same_depth(st, current, depth, ord, i) ==
    IF i > Len(OrderOf(ord, current)) THEN st
    ELSE LET dependent == OrderOf(ord, current)[i] IN
         impact_dependents_same_depth(
            IF dependent \notin st.visited
            THEN [st EXCEPT !.visited = @ \cup {dependent},
                            !.impacted = @ \cup {dependent},
                            !.queue = Append(@, <<dependent, depth>>)]
            ELSE st,
            current, depth, ord, i + 1)

impact_dependents(st, current, depth, ord, i) ==
    IF i > Len(OrderOf(ord, current)) THEN st
    ELSE LET dependent == OrderOf(ord, current)[i] IN
         impact_dependents(
            IF dependent \notin st.visited
            THEN [st EXCEPT !.visited = @ \cup {dependent},
                            !.impacted = @ \cup {dependent},
                            !.queue = Append(@, <<dependent, depth + 1>>)]
            ELSE st,
            current, depth, ord, i + 1)

\* The loop with the depth test off by one: `depth > max_depth`.
RECURSIVE impact_bfs_inclusive(_, _, _)
impact_bfs_inclusive(st, max_depth, ord) ==
    IF st.queue = <<>> THEN st
    ELSE LET current == Head(st.queue)[1]
             depth == Head(st.queue)[2]
             popped == [st EXCEPT !.queue = Tail(@)]
         IN IF max_depth.some /\ depth > max_depth.v
            THEN impact_bfs_inclusive(popped, max_depth, ord)
            ELSE impact_bfs_inclusive(
                    impact_dependents(
                        [popped EXCEPT !.reverse_adjacency = Touch(@, current)],
                        current, depth, ord, 1),
                    max_depth, ord)

impact_bfs(st, max_depth, ord) ==
    IF st.queue = <<>> THEN st
    ELSE LET current == Head(st.queue)[1]
             depth == Head(st.queue)[2]
             popped == [st EXCEPT !.queue = Tail(@)]
         IN IF max_depth.some /\ depth >= max_depth.v
            THEN impact_bfs(popped, max_depth, ord)
            ELSE impact_bfs(
                    impact_dependents(
                        [popped EXCEPT !.reverse_adjacency = Touch(@, current)],
                        current, depth, ord, 1),
                    max_depth, ord)

\* get_impact_radius with the start node left out of `visited`.
Graph_get_impact_radius_counting_start(rev, node_id, max_depth, ord) ==
    IF node_id \notin NodeIds
    THEN [value |-> {}, reverse_adjacency |-> rev]
    ELSE LET st == impact_bfs([queue |-> <<<<node_id, 0>>>>,
                               visited |-> {},
                               impacted |-> {},
                               reverse_adjacency |-> rev], max_depth, ord)
         IN [value |-> st.impacted, reverse_adjacency |-> st.reverse_adjacency]

\* Graph.get_impact_radius(node_id, max_depth): [value, reverse_adjacency].
Graph_get_impact_radius(rev, node_id, max_depth, ord) ==
    IF node_id \notin NodeIds
    THEN [value |-> {}, reverse_adjacency |-> rev]
    ELSE LET st == impact_bfs([queue |-> <<<<node_id, 0>>>>,
                               visited |-> {node_id},
                               impacted |-> {},
                               reverse_adjacency |-> rev], max_depth, ord)
         IN [value |-> st.impacted, reverse_adjacency |-> st.reverse_adjacency]

get_impact_radius(node_id, max_depth) ==
    \E ord \in IterOrders(reverse_adjacency, Traversed(reverse_adjacency, node_id)) :
        LET r == Graph_get_impact_radius(reverse_adjacency, node_id, max_depth, ord) IN
        /\ UNCHANGED <<running, sockets>>
        /\ call' = [op |-> "get_impact_radius", args |-> <<>>]
        /\ ret' = Some(r.value)
        /\ raised' = NoException
        /\ reverse_adjacency' = r.reverse_adjacency
        /\ UNCHANGED <<nodes, edges, adjacency, nx_graph, dirty>>

\* The while loop of get_critical_path on st = [queue, visited, adjacency,
\* value]; each queue entry is <<current, path>>; path_neighbors is its inner
\* loop.
RECURSIVE path_bfs(_, _, _), path_neighbors(_, _, _, _, _)
path_neighbors(st, current, path, ord, i) ==
    IF i > Len(OrderOf(ord, current)) THEN st
    ELSE LET neighbor == OrderOf(ord, current)[i] IN
         path_neighbors(
            IF neighbor \notin st.visited
            THEN [st EXCEPT !.visited = @ \cup {neighbor},
                            !.queue = Append(@, <<neighbor, Append(path, neighbor)>>)]
            ELSE st,
            current, path, ord, i + 1)

\* A depth-first search in place of the loop: the newest entry is taken
\* (queue.pop()) and a neighbor is entered unless it is on the path already.
RECURSIVE path_dfs(_, _, _), path_dfs_neighbors(_, _, _, _, _)
path_dfs(st, end, ord) ==
    IF st.queue = <<>> THEN st
    ELSE LET current == st.queue[Len(st.queue)][1]
             path == st.queue[Len(st.queue)][2]
             popped == [st EXCEPT !.queue = SubSeq(@, 1, Len(@) - 1)]
         IN IF current = end
            THEN [popped EXCEPT !.value = Some(path)]
            ELSE path_dfs(
                    path_dfs_neighbors([popped EXCEPT !.adjacency = Touch(@, current)],
                                       current, path, ord, 1),
                    end, ord)

path_dfs_neighbors(st, current, path, ord, i) ==
    IF i > Len(OrderOf(ord, current)) THEN st
    ELSE LET neighbor == OrderOf(ord, current)[i] IN
         path_dfs_neighbors(
            IF neighbor \notin {path[j] : j \in 1..Len(path)}
            THEN [st EXCEPT !.queue = Append(@, <<neighbor, Append(path, neighbor)>>)]
            ELSE st,
            current, path, ord, i + 1)

path_bfs(st, end, ord) ==
    IF st.queue = <<>> THEN st
    ELSE LET current == Head(st.queue)[1]
             path == Head(st.queue)[2]
             popped == [st EXCEPT !.queue = Tail(@)]
         IN IF current = end
            THEN [popped EXCEPT !.value = Some(path)]
            ELSE path_bfs(
                    path_neighbors([popped EXCEPT !.adjacency = Touch(@, current)],
                                   current, path, ord, 1),
                    end, ord)

\* get_critical_path seeding the queue with an empty path: (start, []).
Graph_get_critical_path_empty_seed(adj, start, end, ord) ==
    IF start \notin NodeIds \/ end \notin NodeIds
    THEN [value |-> None, adjacency |-> adj]
    ELSE LET st == path_bfs([queue |-> <<<<start, <<>>>>>>,
                             visited |-> {start},
                             adjacency |-> adj,
                             value |-> None], end, ord)
         IN [value |-> st.value, adjacency |-> st.adjacency]

\* Graph.get_critical_path(start, end): [value, adjacency].
Graph_get_critical_path(adj, start, end, ord) ==
    IF start \notin NodeIds \/ end \notin NodeIds
    THEN [value |-> None, adjacency |-> adj]
    ELSE LET st == path_bfs([queue |-> <<<<start, <<start>>>>>>,
                             visited |-> {start},
                             adjacency |-> adj,
                             value |-> None], end, ord)
         IN [value |-> st.value, adjacency |-> st.adjacency]

get_critical_path(start, end) ==
    \E ord \in IterOrders(adjacency, Traversed(adjacency, start)) :
        LET r == Graph_get_critical_path(adjacency, start, end, ord) IN
        /\ UNCHANGED <<running, sockets>>
        /\ call' = [op |-> "get_critical_path", args |-> <<>>]
        /\ ret' = r.value
        /\ raised' = NoException
        /\ adjacency' = r.adjacency
        /\ UNCHANGED <<nodes, edges, reverse_adjacency, nx_graph, dirty>>

\* ------------------------------------------------------- dependency lookups
\* Graph.get_dependencies(node_id): self._adjacency.get(node_id, set())
Graph_get_dependencies(node_id) == Get(adjacency, node_id)

\* get_dependents reading the forward index.
Graph_get_dependents_forward(node_id) == Get(adjacency, node_id)

\* Graph.get_dependents(node_id): self._reverse_adjacency.get(node_id, set())
Graph_get_dependents(node_id) == Get(reverse_adjacency, node_id)

get_dependencies(node_id) ==
    /\ UNCHANGED <<running, sockets>>
    /\ call' = [op |-> "get_dependencies", args |-> <<node_id>>]
    /\ ret' = Some(Graph_get_dependencies(node_id))
    /\ raised' = NoException
    /\ UNCHANGED graph

get_dependents(node_id) ==
    /\ UNCHANGED <<running, sockets>>
    /\ call' = [op |-> "get_dependents", args |-> <<node_id>>]
    /\ ret' = Some(Graph_get_dependents(node_id))
    /\ raised' = NoException
    /\ UNCHANGED graph

\* ------------------------------------------------------ derived view, stats
\* {**base, **update} on dicts held as sets of <<key, value>> pairs.
DictMerge(base, update) ==
    {kv \in base : \A kw \in update : kw[1] # kv[1]} \cup update

\* The rebuild without its first loop: only the edges are added, and with
\* them their endpoints.
BuildDiGraph_edges_only ==
    [nodes |-> {[id |-> x, attrs |-> {}] :
                    x \in {e.source : e \in edges} \cup {e.target : e \in edges}},
     edges |-> {[source |-> e.source, target |-> e.target, attrs |-> e.metadata] :
                    e \in edges}]

\* The DiGraph the rebuild in to_networkx constructs: a node per key of
\* self.nodes with its attributes, an edge per element of self.edges, and
\* (DiGraph.add_edge) a bare node for an endpoint not added before.
BuildDiGraph ==
    LET declared == {[id |-> nodes[i].id,
                      attrs |-> DictMerge({<<"node_type", nodes[i].type>>},
                                          nodes[i].metadata)] : i \in 1..Len(nodes)}
        endpoints == {e.source : e \in edges} \cup {e.target : e \in edges}
    IN [nodes |-> declared \cup {[id |-> x, attrs |-> {}] : x \in endpoints \ NodeIds},
        edges |-> {[source |-> e.source, target |-> e.target, attrs |-> e.metadata] :
                    e \in edges}]

\* to_networkx that rebuilds only while there is no cached view:
\* `if self._nx_graph is None`.
Graph_to_networkx_ignoring_dirty == IF ~nx_graph.some THEN BuildDiGraph ELSE nx_graph.v

\* Graph.to_networkx(): the view returned; the cache and the flag change with it.
Graph_to_networkx == IF dirty \/ ~nx_graph.some THEN BuildDiGraph ELSE nx_graph.v

to_networkx ==
    /\ UNCHANGED <<running, sockets>>
    /\ call' = [op |-> "to_networkx", args |-> <<>>]
    /\ ret' = Some(Graph_to_networkx)
    /\ raised' = NoException
    /\ nx_graph' = Some(Graph_to_networkx)
    /\ dirty' = FALSE
    /\ UNCHANGED <<nodes, edges, adjacency, reverse_adjacency>>

DiPairs(g) == {<<e.source, e.target>> : e \in g.edges}
DiNodeIds(g) == {n.id : n \in g.nodes}

\* networkx.is_directed_acyclic_graph: no node reaches itself.
is_directed_acyclic_graph(g) ==
    \A n \in DiNodeIds(g) :
        n \notin Closure(DiPairs(g), {p[2] : p \in {q \in DiPairs(g) : q[1] = n}})

\* networkx.number_weakly_connected_components: components of the graph with
\* the edge directions dropped.
number_weakly_connected_components(g) ==
    LET both == DiPairs(g) \cup {<<p[2], p[1]>> : p \in DiPairs(g)}
    IN Cardinality({Closure(both, {n}) : n \in DiNodeIds(g)})

\* A quotient of integers (Python float division), kept as the pair it comes from.
Ratio(num, den) == [num |-> num, den |-> den]
Zero == Ratio(0, 1)

\* The density of an undirected graph: 2m / (n * (n - 1)).
density_undirected(g) ==
    LET n == Cardinality(g.nodes)
        m == Cardinality(g.edges)
    IN IF m = 0 \/ n <= 1 THEN Zero ELSE Ratio(2 * m, n * (n - 1))

\* networkx.density for a DiGraph: m / (n * (n - 1)), 0 without nodes or edges.
density(g) ==
    LET n == Cardinality(g.nodes)
        m == Cardinality(g.edges)
    IN IF m = 0 \/ n <= 1 THEN Zero ELSE Ratio(m, n * (n - 1))

RECURSIVE SumOver(_, _), MaxOver(_, _)
SumOver(f, K) ==
    IF K = {} THEN 0
    ELSE LET k == CHOOSE x \in K : TRUE IN f[k] + SumOver(f, K \ {k})
MaxOver(f, K) ==
    IF K = {} THEN 0
    ELSE LET k == CHOOSE x \in K : TRUE
             rest == MaxOver(f, K \ {k})
         IN IF K = {k} \/ f[k] >= rest THEN f[k] ELSE rest

\* The "node_count" and "edge_count" entries of stats().
stats_node_count == Len(nodes)
stats_edge_count == Cardinality(edges)

\* Graph.stats(): the dictionary returned, computed on the view g that
\* to_networkx hands back.
Graph_stats(g) ==
    LET in_degrees == [n \in NodeIds |-> Cardinality(Get(reverse_adjacency, n))]
        out_degrees == [n \in NodeIds |-> Cardinality(Get(adjacency, n))]
        present == {nodes[i].type : i \in 1..Len(nodes)}
    IN [node_count |-> stats_node_count,
        edge_count |-> stats_edge_count,
        is_dag |-> is_directed_acyclic_graph(g),
        connected_components |-> number_weakly_connected_components(g),
        density |-> IF Len(nodes) > 0 THEN density(g) ELSE Zero,
        node_types |-> [t \in present |->
                          Cardinality({i \in 1..Len(nodes) : nodes[i].type = t})],
        has_degrees |-> Len(nodes) > 0,
        avg_in_degree |-> IF Len(nodes) > 0
                          THEN Ratio(SumOver(in_degrees, NodeIds), Len(nodes)) ELSE Zero,
        avg_out_degree |-> IF Len(nodes) > 0
                           THEN Ratio(SumOver(out_degrees, NodeIds), Len(nodes)) ELSE Zero,
        max_in_degree |-> MaxOver(in_degrees, NodeIds),
        max_out_degree |-> MaxOver(out_degrees, NodeIds)]

stats ==
    /\ UNCHANGED <<running, sockets>>
    /\ call' = [op |-> "stats", args |-> <<>>]
    /\ ret' = Some(Graph_stats(Graph_to_networkx))
    /\ raised' = NoException
    /\ nx_graph' = Some(Graph_to_networkx)
    /\ dirty' = FALSE
    /\ adjacency' = TouchAll(adjacency, NodeIds)
    /\ reverse_adjacency' = TouchAll(reverse_adjacency, NodeIds)
    /\ UNCHANGED <<nodes, edges>>

\* --------------------------------------------------------- export, parser
\* A decoded document is the dict yaml.safe_load returns.  Its entries are
\*   a str  : [kind |-> "str"], the text held as a sequence of tokens, each
\*            a word, a blank " ", a colon ":" or an arrow "->", so that
\*            `in`, split and strip act on it;
\*   a list : [kind |-> "list"] with its items;
\*   a dict : [kind |-> "dict"] with its string-valued keys in `fields` and
\*            the key 'metadata', when present, in `metadata`;
\*   a number : [kind |-> "int"].
\* dict.get of a missing key gives None; None is held as "", which is falsy
\* like it and is never used as a value.
NoFields == [k \in {} |-> ""]
DefStr(text) ==
    [kind |-> "str", text |-> text, items |-> <<>>, fields |-> NoFields,
     has_metadata |-> FALSE, metadata |-> {}]
DefList(items) ==
    [kind |-> "list", text |-> <<>>, items |-> items, fields |-> NoFields,
     has_metadata |-> FALSE, metadata |-> {}]
DefDict(fields) ==
    [kind |-> "dict", text |-> <<>>, items |-> <<>>, fields |-> fields,
     has_metadata |-> FALSE, metadata |-> {}]
DefDictWith(fields, metadata) ==
    [kind |-> "dict", text |-> <<>>, items |-> <<>>, fields |-> fields,
     has_metadata |-> TRUE, metadata |-> metadata]
DefInt ==
    [kind |-> "int", text |-> <<"42">>, items |-> <<>>, fields |-> NoFields,
     has_metadata |-> FALSE, metadata |-> {}]

\* Node.to_dict() exporting str(self.type) in place of self.type.value.
Node_to_dict_type_repr(node) ==
    DefDictWith(("id" :> node.id) @@ ("type" :> ("NodeType." \o node.type)),
                node.metadata)

\* Node.to_dict(): the type is exported by the value of the enum member.
Node_to_dict(node) ==
    DefDictWith(("id" :> node.id) @@ ("type" :> node.type), node.metadata)

\* Edge.to_dict()
Edge_to_dict(edge) ==
    DefDictWith(("source" :> edge.source) @@ ("target" :> edge.target), edge.metadata)

\* Graph.to_dict(): the dictionary returned when self.edges is iterated in
\* the order edge_order and stats() gives `statistics`.
Graph_to_dict(edge_order, statistics) ==
    [has_nodes |-> TRUE,
     nodes |-> [i \in 1..Len(nodes) |-> Node_to_dict(nodes[i])],
     has_dependencies |-> FALSE,
     dependencies |-> <<>>,
     has_edges |-> TRUE,
     edges |-> [i \in 1..Len(edge_order) |-> Edge_to_dict(edge_order[i])],
     stats |-> Some(statistics)]

\* graph.to_dict(): the call to stats() rebuilds the view and touches the
\* indexes as stats does.
to_dict ==
    \E edge_order \in Perms(edges) :
        /\ UNCHANGED <<running, sockets>>
        /\ call' = [op |-> "to_dict", args |-> <<>>]
        /\ ret' = Some(Graph_to_dict(edge_order, Graph_stats(Graph_to_networkx)))
        /\ raised' = NoException
        /\ nx_graph' = Some(Graph_to_networkx)
        /\ dirty' = FALSE
        /\ adjacency' = TouchAll(adjacency, NodeIds)
        /\ reverse_adjacency' = TouchAll(reverse_adjacency, NodeIds)
        /\ UNCHANGED <<nodes, edges>>

\* `sep in text`, and the position of the first sep.
Contains(text, sep) == \E i \in 1..Len(text) : text[i] = sep
\* text.split(sep, 1) for a text that contains sep.
split_once(text, sep) ==
    LET i == IndexOf(text, sep) IN
    <<SubSeq(text, 1, i - 1), SubSeq(text, i + 1, Len(text))>>

\* str.strip(): leading and trailing blanks dropped.
RECURSIVE lstrip(_), rstrip(_)
lstrip(text) ==
    IF text # <<>> /\ Head(text) = " " THEN lstrip(Tail(text)) ELSE text
rstrip(text) ==
    IF text # <<>> /\ text[Len(text)] = " "
    THEN rstrip(SubSeq(text, 1, Len(text) - 1)) ELSE text
strip(text) == rstrip(lstrip(text))

\* The string a text is.
RECURSIVE str(_)
str(text) == IF text = <<>> THEN "" ELSE Head(text) \o str(Tail(text))

\* dict.get(key, default)
DictGet(fields, key, default) == IF key \in DOMAIN fields THEN fields[key] ELSE default

\* The loop that copies the fields outside `reserved` into metadata.
ExtraFields(def, reserved) ==
    DictMerge(IF def.has_metadata THEN def.metadata ELSE {},
              {<<k, def.fields[k]>> : k \in DOMAIN def.fields \ reserved})

\* The rendering of a definition in an error message; that of a dict is not
\* spelled out.
Quoted(items) == [i \in 1..Len(items) |-> "'" \o items[i] \o "'"]
Repr(def) ==
    CASE def.kind = "str" -> str(def.text)
      [] def.kind = "int" -> str(def.text)
      [] def.kind = "list" -> "[" \o join(", ", Quoted(def.items)) \o "]"
      [] OTHER -> "{...}"

\* YAMLParser._parse_node(node_def): the Node built, or the exception.
parse_node(node_def) ==
    IF node_def.kind = "str"
    THEN IF Contains(node_def.text, ":")
         THEN LET parts == split_once(node_def.text, ":") IN
              Node(str(strip(parts[1])), str(strip(parts[2])), {})
         ELSE Node(str(strip(node_def.text)), str(strip(<<"service">>)), {})
    ELSE IF node_def.kind = "dict"
    THEN LET node_id == DictGet(node_def.fields, "id", "") IN
         IF node_id = ""
         THEN [raised |-> ValueError("Node definition missing 'id' field"),
               value |-> [id |-> "", type |-> "custom", metadata |-> {}]]
         ELSE Node(node_id, DictGet(node_def.fields, "type", "service"),
                   ExtraFields(node_def, {"id", "type", "metadata"}))
    ELSE [raised |-> ValueError("Invalid node definition: " \o Repr(node_def)),
          value |-> [id |-> "", type |-> "custom", metadata |-> {}]]

\* x or y on strings
Or(x, y) == IF x # "" THEN x ELSE y

\* _parse_dependency that accepts any list of two elements or more.
parse_dependency_two_or_more(dep_def) ==
    IF dep_def.kind = "str"
    THEN IF Contains(dep_def.text, "->")
         THEN LET parts == split_once(dep_def.text, "->") IN
              Edge(str(strip(parts[1])), str(strip(parts[2])), {})
         ELSE Failed(ValueError("Invalid dependency string format: " \o Repr(dep_def)))
    ELSE IF dep_def.kind = "list"
    THEN IF Len(dep_def.items) < 2
         THEN Failed(ValueError("Dependency list must have exactly 2 elements: "
                                    \o Repr(dep_def)))
         ELSE Edge(dep_def.items[1], dep_def.items[2], {})
    ELSE IF dep_def.kind = "dict"
    THEN LET source == Or(DictGet(dep_def.fields, "source", ""),
                          DictGet(dep_def.fields, "from", ""))
             target == Or(DictGet(dep_def.fields, "target", ""),
                          DictGet(dep_def.fields, "to", ""))
         IN IF source = "" \/ target = ""
            THEN Failed(ValueError("Dependency missing source or target: "
                                       \o Repr(dep_def)))
            ELSE Edge(source, target,
                      ExtraFields(dep_def, {"source", "target", "from", "to", "metadata"}))
    ELSE Failed(ValueError("Invalid dependency definition: " \o Repr(dep_def)))

\* YAMLParser._parse_dependency(dep_def): the Edge built, or the exception.
parse_dependency(dep_def) ==
    IF dep_def.kind = "str"
    THEN IF Contains(dep_def.text, "->")
         THEN LET parts == split_once(dep_def.text, "->") IN
              Edge(str(strip(parts[1])), str(strip(parts[2])), {})
         ELSE Failed(ValueError("Invalid dependency string format: " \o Repr(dep_def)))
    ELSE IF dep_def.kind = "list"
    THEN IF Len(dep_def.items) # 2
         THEN Failed(ValueError("Dependency list must have exactly 2 elements: "
                                    \o Repr(dep_def)))
         ELSE Edge(dep_def.items[1], dep_def.items[2], {})
    ELSE IF dep_def.kind = "dict"
    THEN LET source == Or(DictGet(dep_def.fields, "source", ""),
                          DictGet(dep_def.fields, "from", ""))
             target == Or(DictGet(dep_def.fields, "target", ""),
                          DictGet(dep_def.fields, "to", ""))
         IN IF source = "" \/ target = ""
            THEN Failed(ValueError("Dependency missing source or target: "
                                       \o Repr(dep_def)))
            ELSE Edge(source, target,
                      ExtraFields(dep_def, {"source", "target", "from", "to", "metadata"}))
    ELSE Failed(ValueError("Invalid dependency definition: " \o Repr(dep_def)))

\* The two loops of parse_dict on the graph g, from index i on.
RECURSIVE parse_nodes(_, _, _), parse_dependencies(_, _, _)
parse_nodes(g, nodes_data, i) ==
    IF i > Len(nodes_data) THEN Done(g)
    ELSE LET node == parse_node(nodes_data[i]) IN
         IF node.raised # NoException THEN Raise(node.raised, g)
         ELSE LET r == Graph_add_node_on(g, node.value) IN
              IF r.raised # NoException THEN r
              ELSE parse_nodes(r.graph, nodes_data, i + 1)

parse_dependencies(g, dependencies, i) ==
    IF i > Len(dependencies) THEN Done(g)
    ELSE LET edge == parse_dependency(dependencies[i]) IN
         IF edge.raised # NoException THEN Raise(edge.raised, g)
         ELSE LET r == Graph_add_edge_on(g, edge.value) IN
              IF r.raised # NoException THEN r
              ELSE parse_dependencies(r.graph, dependencies, i + 1)

\* data.get('nodes', []) and data.get('dependencies', data.get('edges', []))
NodesData(data) == IF data.has_nodes THEN data.nodes ELSE <<>>
DependenciesData(data) ==
    IF data.has_dependencies THEN data.dependencies
    ELSE IF data.has_edges THEN data.edges ELSE <<>>

\* parse_dict with the two loops exchanged: the dependencies first.
YAMLParser_parse_dict_edges_first(data) ==
    LET with_edges == parse_dependencies(NewGraph, DependenciesData(data), 1) IN
    IF with_edges.raised # NoException THEN with_edges
    ELSE parse_nodes(with_edges.graph, NodesData(data), 1)

\* YAMLParser.parse_dict(data): the exception raised, or the graph returned.
YAMLParser_parse_dict(data) ==
    LET with_nodes == parse_nodes(NewGraph, NodesData(data), 1) IN
    IF with_nodes.raised # NoException THEN with_nodes
    ELSE parse_dependencies(with_nodes.graph, DependenciesData(data), 1)

\* graph = YAMLParser.parse_dict(data): the caller's graph is the one
\* returned; when the call raises nothing is returned and the caller keeps
\* the graph it had.
parse_dict(data) ==
    LET r == YAMLParser_parse_dict(data) IN
    /\ UNCHANGED <<running, sockets>>
    /\ call' = [op |-> "parse_dict", args |-> <<data>>]
    /\ raised' = r.raised
    /\ IF r.raised # NoException
       THEN ret' = None /\ UNCHANGED graph
       ELSE ret' = Some("Graph") /\ Becomes(r.graph)

\* ------------------------------------------------- GraphBuilder, batch calls
\* Arguments of add_nodes and add_dependencies: the definitions above, and
\* instances of Node and of Edge, which were validated when constructed.
DefNode(id, type) ==
    [kind |-> "Node", text |-> <<>>, items |-> <<>>,
     fields |-> ("id" :> id) @@ ("type" :> type),
     has_metadata |-> FALSE, metadata |-> {}]
DefEdge(source, target) ==
    [kind |-> "Edge", text |-> <<>>, items |-> <<source, target>>, fields |-> NoFields,
     has_metadata |-> FALSE, metadata |-> {}]

\* A call that lacks required arguments; the message is the one of
\* Python 3.10 and later.
TypeError(msg) == [exc |-> "TypeError", msg |-> msg]
MissingArguments(method, names) ==
    TypeError("GraphBuilder." \o method \o "() missing "
                  \o (IF Len(names) = 1
                      THEN "1 required positional argument: '" \o names[1] \o "'"
                      ELSE "2 required positional arguments: '" \o names[1]
                               \o "' and '" \o names[2] \o "'"))

\* The keyword arguments of a call f(**def) that f collects in **metadata.
Keywords(def, named) == {<<k, def.fields[k]>> : k \in DOMAIN def.fields \ named}

\* GraphBuilder.add_node(node_id, node_type, **metadata) on the graph g.
GraphBuilder_add_node(g, node_id, node_type, metadata) ==
    LET node == Node(node_id, node_type, metadata) IN
    IF node.raised # NoException THEN Raise(node.raised, g)
    ELSE Graph_add_node_on(g, node.value)

\* GraphBuilder.add_dependency(source, target, **metadata) on the graph g.
GraphBuilder_add_dependency(g, source, target, metadata) ==
    LET e == Edge(source, target, metadata) IN
    IF e.raised # NoException THEN Raise(e.raised, g)
    ELSE Graph_add_edge_on(g, e.value)

\* The body of the loop of add_nodes for one definition.
add_nodes_one(g, node_def) ==
    CASE node_def.kind = "Node" ->
            Graph_add_node_on(g, [id |-> node_def.fields["id"],
                                  type |-> node_def.fields["type"],
                                  metadata |-> node_def.metadata])
      [] node_def.kind = "dict" ->
            IF "node_id" \notin DOMAIN node_def.fields
            THEN Raise(MissingArguments("add_node", <<"node_id">>), g)
            ELSE GraphBuilder_add_node(g, node_def.fields["node_id"],
                                       DictGet(node_def.fields, "node_type", "service"),
                                       Keywords(node_def, {"node_id", "node_type"}))
      [] node_def.kind = "str" ->
            GraphBuilder_add_node(g, str(node_def.text), "service", {})
      [] OTHER -> Raise(ValueError("Invalid node definition: " \o Repr(node_def)), g)

\* The loop of add_nodes from index i on: an exception leaves the loop with
\* the insertions made so far.
RECURSIVE add_nodes_loop(_, _, _)
add_nodes_loop(g, node_defs, i) ==
    IF i > Len(node_defs) THEN Done(g)
    ELSE LET r == add_nodes_one(g, node_defs[i]) IN
         IF r.raised # NoException THEN r
         ELSE add_nodes_loop(r.graph, node_defs, i + 1)

\* The body of the loop of add_dependencies for one definition.
add_dependencies_one(g, dep_def) ==
    CASE dep_def.kind = "Edge" ->
            Graph_add_edge_on(g, [source |-> dep_def.items[1],
                                  target |-> dep_def.items[2],
                                  metadata |-> dep_def.metadata])
      [] dep_def.kind = "dict" ->
            LET missing == SelectSeq(<<"source", "target">>,
                                     LAMBDA k : k \notin DOMAIN dep_def.fields) IN
            IF missing # <<>>
            THEN Raise(MissingArguments("add_dependency", missing), g)
            ELSE GraphBuilder_add_dependency(g, dep_def.fields["source"],
                                             dep_def.fields["target"],
                                             Keywords(dep_def, {"source", "target"}))
      [] dep_def.kind = "str" /\ Contains(dep_def.text, "->") ->
            LET parts == split_once(dep_def.text, "->") IN
            GraphBuilder_add_dependency(g, str(strip(parts[1])), str(strip(parts[2])), {})
      [] dep_def.kind = "list" /\ Len(dep_def.items) = 2 ->
            GraphBuilder_add_dependency(g, dep_def.items[1], dep_def.items[2], {})
      [] OTHER -> Raise(ValueError("Invalid dependency definition: " \o Repr(dep_def)), g)

\* The loop of add_dependencies that goes on after an exception and raises
\* it when the list is exhausted.
RECURSIVE add_dependencies_loop_resuming(_, _, _)
add_dependencies_loop_resuming(g, dep_defs, i) ==
    IF i > Len(dep_defs) THEN Done(g)
    ELSE LET r == add_dependencies_one(g, dep_defs[i])
             rest == add_dependencies_loop_resuming(r.graph, dep_defs, i + 1)
         IN IF r.raised # NoException THEN Raise(r.raised, rest.graph) ELSE rest

\* The loop of add_dependencies from index i on.
RECURSIVE add_dependencies_loop(_, _, _)
add_dependencies_loop(g, dep_defs, i) ==
    IF i > Len(dep_defs) THEN Done(g)
    ELSE LET r == add_dependencies_one(g, dep_defs[i]) IN
         IF r.raised # NoException THEN r
         ELSE add_dependencies_loop(r.graph, dep_defs, i + 1)

\* builder.add_nodes(*nodes)
add_nodes(node_defs) ==
    LET r == add_nodes_loop(GraphOf, node_defs, 1) IN
    /\ UNCHANGED <<running, sockets>>
    /\ call' = [op |-> "add_nodes", args |-> <<node_defs>>]
    /\ ret' = None
    /\ raised' = r.raised
    /\ Becomes(r.graph)

\* builder.add_dependencies(*dependencies)
add_dependencies(dep_defs) ==
    LET r == add_dependencies_loop(GraphOf, dep_defs, 1) IN
    /\ UNCHANGED <<running, sockets>>
    /\ call' = [op |-> "add_dependencies", args |-> <<dep_defs>>]
    /\ ret' = None
    /\ raised' = r.raised
    /\ Becomes(r.graph)

\* ---------------------------------------------------------- GET /topology
\* graph_service.topological_sort(), as the route calls it: the service
\* hands the call to the graph it holds and returns what the graph returns.
GraphService_topological_sort(adj, rev, ord) == Graph_topological_sort(adj, rev, ord)

\* `not order` of Python: None and the empty list are both false.
Not(order) == ~order.some \/ order.v = <<>>

\* The route handler get_topology: the response, and the indexes as the
\* query leaves them.  The value of graph_service.calculate_levels() is
\* passed through as it comes and is kept as a token.
get_topology ==
    \E ord \in IterOrders(adjacency, NodeIds) :
        LET r == GraphService_topological_sort(adjacency, reverse_adjacency, ord)
            order == r.value
        IN
        /\ UNCHANGED <<running, sockets>>
        /\ call' = [op |-> "get_topology", args |-> <<>>]
        /\ ret' = Some(IF Not(order)
                       THEN [is_dag |-> FALSE, order |-> None,
                             message |-> "Graph contains cycles", levels |-> ""]
                       ELSE [is_dag |-> TRUE, order |-> order,
                             message |-> "", levels |-> "calculate_levels()"])
        /\ raised' = NoException
        /\ adjacency' = r.adjacency
        /\ reverse_adjacency' = r.reverse_adjacency
        /\ UNCHANGED <<nodes, edges, nx_graph, dirty>>

\* ------------------------------------------------------- overlapping calls
\* Two threads on one Graph, without a lock: one calls to_networkx, the
\* other add_node and add_edge.  A thread switch can fall between any two
\* statements, so each call is taken statement by statement.
RuntimeError(msg) == [exc |-> "RuntimeError", msg |-> msg]

\* nx.DiGraph(), DiGraph.add_node(id, **attrs) and
\* DiGraph.add_edge(u, v, **attrs): attributes of a node or edge already
\* there are updated, endpoints not there are added bare.
EmptyDiGraph == [nodes |-> {}, edges |-> {}]
DiGraph_add_node(g, id, attrs) ==
    LET old == {n \in g.nodes : n.id = id}
        kept == UNION {n.attrs : n \in old}
    IN [g EXCEPT !.nodes = (@ \ old) \cup {[id |-> id, attrs |-> DictMerge(kept, attrs)]}]
DiGraph_add_edge(g, u, v, attrs) ==
    LET old == {e \in g.edges : e.source = u /\ e.target = v}
        kept == UNION {e.attrs : e \in old}
        bare == {[id |-> x, attrs |-> {}] : x \in {u, v} \ DiNodeIds(g)}
    IN [nodes |-> g.nodes \cup bare,
        edges |-> (g.edges \ old)
                    \cup {[source |-> u, target |-> v, attrs |-> DictMerge(kept, attrs)]}]

\* to_networkx up to the first loop: the cached view is returned, or the
\* cache is replaced by an empty DiGraph and the iterator over
\* self.nodes.values() is created.
to_networkx_begin ==
    /\ running.reader = "idle"
    /\ call' = [op |-> "to_networkx", args |-> <<>>]
    /\ IF dirty \/ ~nx_graph.some
       THEN /\ nx_graph' = Some(EmptyDiGraph)
            /\ running' = [running EXCEPT !.reader = "nodes", !.i = 1,
                                          !.used = Len(nodes), !.order = <<>>,
                                          !.began = <<Len(nodes), Cardinality(edges)>>]
            /\ UNCHANGED <<raised, ret>>
       ELSE /\ ret' = nx_graph
            /\ raised' = NoException
            /\ UNCHANGED <<nx_graph, running>>
    /\ UNCHANGED <<nodes, edges, adjacency, reverse_adjacency, dirty, sockets>>

\* One turn of `for node in self.nodes.values()`: the iterator raises if the
\* dict has changed size, yields the next node, which is added to the view,
\* or is exhausted, and the iterator over self.edges is created.
to_networkx_node ==
    /\ running.reader = "nodes"
    /\ IF Len(nodes) # running.used
       THEN /\ raised' = RuntimeError("dictionary changed size during iteration")
            /\ ret' = None
            /\ running' = [running EXCEPT !.reader = "idle"]
            /\ UNCHANGED nx_graph
       ELSE IF running.i <= Len(nodes)
       THEN LET node == nodes[running.i] IN
            /\ nx_graph' = Some(DiGraph_add_node(
                                    nx_graph.v, node.id,
                                    DictMerge({<<"node_type", node.type>>}, node.metadata)))
            /\ running' = [running EXCEPT !.i = @ + 1]
            /\ UNCHANGED <<raised, ret>>
       ELSE \E order \in Perms(edges) :
                /\ running' = [running EXCEPT !.reader = "edges", !.i = 1,
                                              !.used = Cardinality(edges),
                                              !.order = order]
                /\ UNCHANGED <<nx_graph, raised, ret>>
    /\ UNCHANGED <<nodes, edges, adjacency, reverse_adjacency, dirty, call, sockets>>

\* One turn of `for edge in self.edges`: the iterator raises if the set has
\* changed size, yields the next edge, which is added to the view, or is
\* exhausted.
to_networkx_edge ==
    /\ running.reader = "edges"
    /\ IF Cardinality(edges) # running.used
       THEN /\ raised' = RuntimeError("Set changed size during iteration")
            /\ ret' = None
            /\ running' = [running EXCEPT !.reader = "idle"]
            /\ UNCHANGED nx_graph
       ELSE IF running.i <= Len(running.order)
       THEN LET edge == running.order[running.i] IN
            /\ nx_graph' = Some(DiGraph_add_edge(nx_graph.v, edge.source, edge.target,
                                                 edge.metadata))
            /\ running' = [running EXCEPT !.i = @ + 1]
            /\ UNCHANGED <<raised, ret>>
       ELSE /\ running' = [running EXCEPT !.reader = "clear"]
            /\ UNCHANGED <<nx_graph, raised, ret>>
    /\ UNCHANGED <<nodes, edges, adjacency, reverse_adjacency, dirty, call, sockets>>

\* self._dirty = False; return self._nx_graph
to_networkx_clear ==
    /\ running.reader = "clear"
    /\ dirty' = FALSE
    /\ ret' = nx_graph
    /\ raised' = NoException
    /\ running' = [running EXCEPT !.reader = "idle"]
    /\ UNCHANGED <<nodes, edges, adjacency, reverse_adjacency, nx_graph, call, sockets>>

\* A mutation that returns without the assignment self._dirty = True.
mark_dirty_forgotten ==
    /\ running.writer = "flag"
    /\ running' = [running EXCEPT !.writer = "idle"]
    /\ UNCHANGED <<nodes, edges, adjacency, reverse_adjacency, nx_graph, dirty,
                   call, raised, ret, sockets>>

\* self._dirty = True, the last statement of add_node and of an add_edge
\* that inserts.
mark_dirty ==
    /\ running.writer = "flag"
    /\ dirty' = TRUE
    /\ running' = [running EXCEPT !.writer = "idle"]
    /\ UNCHANGED <<nodes, edges, adjacency, reverse_adjacency, nx_graph,
                   call, raised, ret, sockets>>

\* The statements of a mutation before the assignment to _dirty: the call
\* raises, returns at once (an edge already there), or has inserted and is
\* left with the assignment to make.
Inserted(r) ==
    /\ raised' = r.raised
    /\ nodes' = r.graph.nodes
    /\ edges' = r.graph.edges
    /\ adjacency' = r.graph.adjacency
    /\ reverse_adjacency' = r.graph.reverse_adjacency
    /\ running' = IF <<r.graph.nodes, r.graph.edges>> # <<nodes, edges>>
                  THEN [running EXCEPT !.writer = "flag"] ELSE running
    /\ UNCHANGED <<nx_graph, dirty, sockets>>

\* graph.add_node(Node(id, type, metadata)) up to the insertion.
add_node_insert(id, type, metadata) ==
    /\ running.writer = "idle"
    /\ call' = [op |-> "add_node", args |-> <<id, type, metadata>>]
    /\ ret' = None
    /\ LET n == Node(id, type, metadata) IN
       IF n.raised # NoException
       THEN Inserted(Raise(n.raised, GraphOf))
       ELSE Inserted(Graph_add_node_on(GraphOf, n.value))

\* graph.add_edge(Edge(source, target, metadata)) up to the insertion.
add_edge_insert(source, target, metadata) ==
    /\ running.writer = "idle"
    /\ call' = [op |-> "add_edge", args |-> <<source, target, metadata>>]
    /\ ret' = None
    /\ LET e == Edge(source, target, metadata) IN
       IF e.raised # NoException
       THEN Inserted(Raise(e.raised, GraphOf))
       ELSE Inserted(Graph_add_edge_on(GraphOf, e.value))

\* --------------------------------------------------------------- websocket
\* Coroutines on one event loop: a websocket_endpoint per connection and
\* ConnectionManager.broadcast.  A coroutine runs alone from one await to the
\* next, so each is taken await by await.

\* ConnectionManager.connect(websocket) once accept() has returned:
\* active_connections.add(websocket).  An iterator over the set that is in
\* progress comes to yield the new element or not, depending on the slot of
\* the hash table the element lands in.
ConnectionManager_connect(websocket) ==
    /\ active_connections' = active_connections \cup {websocket}
    /\ IF broadcasting.pc = "sending" /\ websocket \notin active_connections
       THEN \E at \in 0..(Len(broadcasting.rest) + 1) :
                broadcasting' =
                    IF at = 0 THEN broadcasting
                    ELSE [broadcasting EXCEPT
                            !.rest = SubSeq(@, 1, at - 1) \o <<websocket>>
                                        \o SubSeq(@, at, Len(@))]
       ELSE UNCHANGED broadcasting

\* ConnectionManager.disconnect(websocket): active_connections.discard(websocket).
ConnectionManager_disconnect(websocket) ==
    /\ active_connections' = active_connections \ {websocket}
    /\ broadcasting' =
          IF broadcasting.pc = "sending"
          THEN [broadcasting EXCEPT !.rest = SelectSeq(@, LAMBDA c : c # websocket),
                                    !.left = @ \cup {websocket}]
          ELSE broadcasting

\* The exceptions an await of websocket_endpoint raises, and the exceptions
\* its except clauses handle with a handler that catches WebSocketDisconnect
\* only.
EndpointErrors == {"WebSocketDisconnect", "Exception"}
HandledErrors_disconnect_only == {"WebSocketDisconnect"}

\* The exceptions the except clauses of websocket_endpoint handle.
HandledErrors == {"WebSocketDisconnect", "Exception"}

\* websocket_endpoint(websocket) is started and awaits websocket.accept().
websocket_endpoint(websocket) ==
    /\ handlers[websocket].pc = "new"
    /\ handlers' = [handlers EXCEPT ![websocket].pc = "accept"]
    /\ UNCHANGED <<graph, call, raised, ret, running, active_connections, broadcasting>>

\* accept() returns: the connection is registered, the initial data are put
\* together, which calls graph.stats(), and the endpoint awaits their send.
accept_returns(websocket) ==
    /\ handlers[websocket].pc = "accept"
    /\ ConnectionManager_connect(websocket)
    /\ handlers' = [handlers EXCEPT ![websocket].pc = "initial"]
    /\ nx_graph' = Some(Graph_to_networkx)
    /\ dirty' = FALSE
    /\ adjacency' = TouchAll(adjacency, NodeIds)
    /\ reverse_adjacency' = TouchAll(reverse_adjacency, NodeIds)
    /\ UNCHANGED <<nodes, edges, call, raised, ret, running>>

\* accept() raises: the exception leaves connect() and the endpoint, which
\* awaits it outside its try statement.
accept_raises(websocket) ==
    /\ handlers[websocket].pc = "accept"
    /\ handlers' = [handlers EXCEPT ![websocket] = [pc |-> "ended", ended_by |-> "accept"]]
    /\ UNCHANGED <<graph, call, raised, ret, running, active_connections, broadcasting>>

\* The await the endpoint stands at returns: the initial data are sent and
\* the loop is entered; receive_text times out and a ping is sent; the ping
\* is sent and the loop goes round.  (A message received leaves the endpoint
\* where it is.)
await_returns(websocket) ==
    /\ handlers[websocket].pc \in {"initial", "receive", "ping"}
    /\ handlers' = [handlers EXCEPT ![websocket].pc =
                        IF @ = "receive" THEN "ping" ELSE "receive"]
    /\ UNCHANGED <<graph, call, raised, ret, running, active_connections, broadcasting>>

\* The await the endpoint stands at raises `error`: an except clause that
\* handles it calls manager.disconnect, and the endpoint ends.
await_raises(websocket, error) ==
    /\ handlers[websocket].pc \in {"initial", "receive", "ping"}
    /\ handlers' = [handlers EXCEPT ![websocket] = [pc |-> "ended", ended_by |-> error]]
    /\ IF error \in HandledErrors
       THEN ConnectionManager_disconnect(websocket)
       ELSE UNCHANGED <<active_connections, broadcasting>>
    /\ UNCHANGED <<graph, call, raised, ret, running>>

\* manager.broadcast(message) up to its first await: it returns at once on
\* an empty set; otherwise the iterator over active_connections is created,
\* yields its first connection, and the send to it is awaited.
broadcast_begin ==
    /\ broadcasting.pc # "sending"
    /\ IF active_connections = {}
       THEN broadcasting' = [NoBroadcast EXCEPT !.pc = "done"]
       ELSE \E order \in Perms(active_connections) :
                broadcasting' =
                    [pc |-> "sending", current |-> order[1], rest |-> Tail(order),
                     used |-> Cardinality(active_connections), disconnected |-> {},
                     error |-> NoException, started |-> active_connections,
                     attempted |-> {order[1]}, failed |-> {}, left |-> {}]
    /\ UNCHANGED <<graph, call, raised, ret, running, active_connections, handlers>>

\* The send awaited returns (sent) or raises, and the loop goes to the next
\* connection: the iterator raises if the set has changed size, yields the
\* next connection, whose send is awaited, or is exhausted, and the
\* connections in `disconnected` are removed.
broadcast_resumes(sent) ==
    /\ broadcasting.pc = "sending"
    /\ LET after == IF sent THEN broadcasting
                    ELSE [broadcasting EXCEPT
                            !.disconnected = @ \cup {broadcasting.current},
                            !.failed = @ \cup {broadcasting.current}]
       IN IF Cardinality(active_connections) # after.used
          THEN /\ broadcasting' =
                     [after EXCEPT !.pc = "raised",
                                   !.error = RuntimeError("Set changed size during iteration")]
               /\ UNCHANGED active_connections
          ELSE IF after.rest = <<>>
          THEN /\ broadcasting' = [after EXCEPT !.pc = "done"]
               /\ active_connections' = active_connections \ after.disconnected
          ELSE /\ broadcasting' = [after EXCEPT !.current = Head(after.rest),
                                                !.rest = Tail(after.rest),
                                                !.attempted = @ \cup {Head(after.rest)}]
               /\ UNCHANGED active_connections
    /\ UNCHANGED <<graph, call, raised, ret, running, handlers>>

\* ------------------------------------------------------------ environment
\* The calls made on the graph.  Every id is offered as a plain service node;
\* the first id of the pool is also offered with another type and metadata,
\* and the edge between the first two ids also with metadata, so that a
\* second insertion under the same key can differ from the first.
NodeInputs ==
    {<<id, "service", {}>> : id \in StrInputs}
        \cup {<<IdPool[1], "Database", {<<"tier", "gold">>}>>}
EdgeInputs ==
    {<<source, target, {}>> : source \in StrInputs, target \in StrInputs}
        \cup {<<IdPool[1], IdPool[2], {<<"weight", "5">>}>>}

\* Textual types a caller passes: enumerated values in lower, mixed and upper
\* case, the value of CUSTOM itself, and a string that is no value of NodeType.
KindInputs == {"service", "Database", "SERVICE", "custom", "Widget"}
\* Metadata a caller passes: none, a plain entry, and an entry under the key
\* Node.__post_init__ writes to.
MetadataInputs == {{}, {<<"tier", "gold">>}, {<<"original_type", "legacy">>}}

\* add_edge(source, target) would put a new edge into the graph.
Inserts(source, target) ==
    /\ source \in NodeIds
    /\ target \in NodeIds
    /\ source # target
    /\ ~EdgeIn([source |-> source, target |-> target], edges)

\* The graph has room for the edge under the bound max_edges.
Room(source, target, max_edges) ==
    Inserts(source, target) => Cardinality(edges) < max_edges

Mutate(max_edges) ==
    \/ \E n \in NodeInputs : add_node(n[1], n[2], n[3])
    \/ \E e \in EdgeInputs : Room(e[1], e[2], max_edges) /\ add_edge(e[1], e[2], e[3])

\* The same calls with plain nodes and edges only.
MutatePlain(max_edges) ==
    \/ \E id \in StrInputs : add_node(id, "service", {})
    \/ \E source \in StrInputs, target \in StrInputs :
            Room(source, target, max_edges) /\ add_edge(source, target, {})

\* Construction of a graph and the structural checks on it.
Next ==
    \/ Mutate(MaxEdges)
    \/ find_cycles
    \/ topological_sort
    \/ validate

Spec == Init /\ [][Next]_vars

\* Construction of a graph interleaved with reads of the derived view.
NextCache ==
    \/ Mutate(MaxCacheEdges)
    \/ to_networkx
    \/ stats

SpecCache == Init /\ [][NextCache]_vars

\* Construction of a graph interleaved with the queries that traverse it.
NextQueries ==
    \/ MutatePlain(MaxQueryEdges)
    \/ find_cycles
    \/ topological_sort
    \/ validate
    \/ stats
    \/ \E node_id \in StrInputs, max_depth \in DepthInputs :
            get_impact_radius(node_id, max_depth)
    \/ \E start \in StrInputs, end \in StrInputs :
            get_critical_path(start, end)

SpecQueries == Init /\ [][NextQueries]_vars

\* Construction of a graph interleaved with the two traversals from a node.
NextTraversal ==
    \/ MutatePlain(MaxTraversalEdges)
    \/ \E node_id \in StrInputs, max_depth \in DepthInputs :
            get_impact_radius(node_id, max_depth)
    \/ \E start \in StrInputs, end \in StrInputs :
            get_critical_path(start, end)

SpecTraversal == Init /\ [][NextTraversal]_vars

\* Construction of a graph interleaved with the lookups of direct neighbors
\* and with topological_sort, which materialises keys in both indexes.
NextLookups ==
    \/ MutatePlain(MaxLookupEdges)
    \/ \E node_id \in StrInputs : get_dependencies(node_id)
    \/ \E node_id \in StrInputs : get_dependents(node_id)
    \/ topological_sort

SpecLookups == Init /\ [][NextLookups]_vars

\* Construction of nodes of every kind and their insertion, refused or not,
\* while the graph holds fewer than MaxKindNodes nodes or the id is taken.
NextNodes ==
    \E id \in StrInputs, type \in KindInputs, metadata \in MetadataInputs :
        /\ (id \in Ids \ NodeIds) => Len(nodes) < MaxKindNodes
        /\ add_node(id, type, metadata)

SpecNodes == Init /\ [][NextNodes]_vars

\* Construction of a graph from well-formed ids interleaved with deletions of
\* nodes and reads of the statistics.
NextRemove ==
    \/ \E id \in Ids : add_node(id, "service", {})
    \/ \E source \in Ids, target \in Ids :
            Room(source, target, MaxRemoveEdges) /\ add_edge(source, target, {})
    \/ \E node_id \in Ids : delete_node(node_id)
    \/ stats

SpecRemove == Init /\ [][NextRemove]_vars

\* Argument lists of at most n strings.
ListsUpTo(n) == UNION {[1..k -> StrInputs] : k \in 0..n}

\* The builder call leaves at most MaxBuilderEdges edges in the graph.
BuilderRoom(r) == Cardinality(r.graph.edges) <= MaxBuilderEdges

\* A graph put together through a GraphBuilder: nodes one by one, new ids
\* in the order of the pool, and edges by the convenience calls.
NextBuilder ==
    \/ \E id \in StrInputs :
            /\ id \in Ids \ NodeIds => id = IdPool[Len(nodes) + 1]
            /\ add_node(id, "service", {})
    \/ \E node_ids \in ListsUpTo(MaxChain) :
            BuilderRoom(add_chain_loop(GraphOf, node_ids, 1)) /\ add_chain(node_ids)
    \/ \E source \in StrInputs, targets \in ListsUpTo(MaxFan) :
            BuilderRoom(add_fanout_loop(GraphOf, source, targets, 1))
                /\ add_fanout(source, targets)
    \/ \E target \in StrInputs, sources \in ListsUpTo(MaxFan) :
            BuilderRoom(add_fanin_loop(GraphOf, target, sources, 1))
                /\ add_fanin(target, sources)

SpecBuilder == Init /\ [][NextBuilder]_vars

\* Node lists and dependency lists of the documents ingested: the three
\* notations of each, well formed and not, with declared and undeclared
\* endpoints.
NodeLists ==
    {<<>>,
     <<DefStr(<<"a">>), DefStr(<<"b", ":", "Database">>)>>,
     <<DefStr(<<" ", "a", " ">>), DefDict("id" :> "b"),
       DefDictWith(("id" :> "c") @@ ("type" :> "cache") @@ ("team" :> "core"),
                   {<<"tier", "gold">>})>>,
     <<DefDict("id" :> "a"), DefDict("type" :> "api")>>,
     <<DefDict("id" :> "a"), DefDict(("id" :> "") @@ ("type" :> "api"))>>,
     <<DefStr(<<"a">>), DefStr(<<"a">>)>>,
     <<DefStr(<<":", "api">>)>>,
     <<DefInt>>}

DependencyLists ==
    {<<>>,
     <<DefStr(<<"a", " ", "->", " ", "b">>)>>,
     <<DefStr(<<"b", "->", "a">>), DefList(<<"a", "b">>)>>,
     <<DefStr(<<"a", " ", "b">>)>>,
     <<DefList(<<"a">>)>>,
     <<DefList(<<"a", "b", "c">>)>>,
     <<DefDict(("source" :> "a") @@ ("target" :> "b"))>>,
     <<DefDictWith(("from" :> "a") @@ ("to" :> "b") @@ ("weight" :> "5"), {})>>,
     <<DefDict(("source" :> "") @@ ("from" :> "b") @@ ("target" :> "a"))>>,
     <<DefDict("source" :> "a")>>,
     <<DefDict(("target" :> "b") @@ ("to" :> "b"))>>,
     <<DefDict(("source" :> "a") @@ ("target" :> ""))>>,
     <<DefStr(<<"a", "->", "c">>)>>,
     <<DefStr(<<"c", "->", "a">>)>>,
     <<DefStr(<<"a", "->", "b">>), DefStr(<<"a", "->", "c">>), DefStr(<<"a">>)>>,
     <<DefStr(<<"a", "->", "b">>), DefList(<<"b">>)>>,
     <<DefStr(<<"a", "->", "a">>)>>,
     <<DefStr(<<"a", "->">>)>>,
     <<DefInt>>}

\* The node lists that are ingested without error.
AcceptedNodeLists ==
    {n \in NodeLists : parse_nodes(NewGraph, n, 1).raised = NoException}

\* The documents: every accepted node list with every dependency list and
\* every other node list with three of them, under the key 'dependencies',
\* and documents with the key 'edges', with both keys and without the key
\* 'nodes'.
Document(node_list, dependency_list) ==
    [has_nodes |-> TRUE, nodes |-> node_list,
     has_dependencies |-> TRUE, dependencies |-> dependency_list,
     has_edges |-> FALSE, edges |-> <<>>, stats |-> None]

DocInputs ==
    {Document(n, d) : n \in AcceptedNodeLists, d \in DependencyLists}
        \cup {Document(n, d) :
                n \in NodeLists,
                d \in {<<>>, <<DefList(<<"a", "b">>)>>, <<DefList(<<"a">>)>>}}
        \cup {[Document(n, <<>>) EXCEPT !.has_dependencies = FALSE,
                                        !.has_edges = TRUE, !.edges = d] :
                n \in AcceptedNodeLists,
                d \in {<<DefList(<<"b", "a">>)>>, <<DefList(<<"b">>)>>}}
        \cup {[Document(n, <<DefList(<<"a", "b">>)>>) EXCEPT
                    !.has_edges = TRUE, !.edges = <<DefList(<<"b", "a">>)>>] :
                n \in AcceptedNodeLists}
        \cup {[Document(<<>>, d) EXCEPT !.has_nodes = FALSE] :
                d \in {<<>>, <<DefList(<<"a", "b">>)>>, <<DefList(<<"a">>)>>}}

\* Nodes of every kind and edges with metadata.
RoundTripNodeInputs == NodeInputs \cup {<<IdPool[2], "Widget", {}>>}

\* Construction of a graph, its export, and the ingestion of the export.
NextRoundTrip ==
    \/ \E n \in RoundTripNodeInputs : add_node(n[1], n[2], n[3])
    \/ \E e \in EdgeInputs :
            Room(e[1], e[2], MaxRoundTripEdges) /\ add_edge(e[1], e[2], e[3])
    \/ to_dict
    \/ call.op = "to_dict" /\ parse_dict(ret.v)

SpecRoundTrip == Init /\ [][NextRoundTrip]_vars

\* Ingestion of documents, into a caller that goes on to change the graph.
NextIngest ==
    \/ MutatePlain(MaxIngestEdges)
    \/ \E data \in DocInputs : parse_dict(data)

SpecIngest == Init /\ [][NextIngest]_vars

\* No call is in progress.
Quiescent == running.reader = "idle" /\ running.writer = "idle"

\* A thread that calls to_networkx, a thread that adds nodes and edges, and
\* calls to stats made while neither is in a call.
NextThreads ==
    \/ \E id \in Ids : add_node_insert(id, "service", {})
    \/ \E source \in Ids, target \in Ids :
            Room(source, target, MaxThreadEdges) /\ add_edge_insert(source, target, {})
    \/ mark_dirty
    \/ to_networkx_begin
    \/ to_networkx_node
    \/ to_networkx_edge
    \/ to_networkx_clear
    \/ Quiescent /\ stats

SpecThreads == Init /\ [][NextThreads]_vars

\* Construction of a graph interleaved with every query of the graph.
NextFrame ==
    \/ MutatePlain(MaxFrameEdges)
    \/ \E node_id \in StrInputs : get_dependencies(node_id)
    \/ \E node_id \in StrInputs : get_dependents(node_id)
    \/ validate
    \/ find_cycles
    \/ topological_sort
    \/ \E node_id \in StrInputs, max_depth \in DepthInputs :
            get_impact_radius(node_id, max_depth)
    \/ \E start \in StrInputs, end \in StrInputs :
            get_critical_path(start, end)

SpecFrame == Init /\ [][NextFrame]_vars

\* The definitions add_nodes and add_dependencies are given: the notations
\* each accepts and an instance, in every order up to MaxBatch, and longer
\* lists with a definition that is refused on its own.
NodeBatches ==
    LET NodeDefs ==
            {DefStr(<<"a">>), DefNode("b", "database"),
             DefDict(("node_id" :> "c") @@ ("node_type" :> "cache") @@ ("team" :> "core"))}
    IN
    UNION {[1..k -> NodeDefs] : k \in 0..MaxBatch}
        \cup {<<DefStr(<<>>)>>, <<DefDict("node_type" :> "api")>>,
              <<DefStr(<<"a">>), DefInt, DefNode("b", "database")>>,
              <<DefNode("b", "database"), DefStr(<<"a">>), DefStr(<<>>)>>}
DependencyBatches ==
    LET DependencyDefs ==
            {DefStr(<<"a", " ", "->", " ", "b">>), DefList(<<"b", "c">>),
             DefDict(("source" :> "c") @@ ("target" :> "a"))}
    IN
    UNION {[1..k -> DependencyDefs] : k \in 0..MaxBatch}
        \cup {<<DefEdge("a", "c"), DefStr(<<"a", "b">>)>>,
              <<DefEdge("c", "b"), DefList(<<"a">>), DefEdge("a", "c")>>,
              <<DefStr(<<"a", "->", "b">>), DefStr(<<"b", "->", "b">>),
                DefList(<<"b", "c">>)>>,
              <<DefList(<<"b", "a">>), DefList(<<"a", "">>)>>,
              <<DefInt>>, <<DefDict("source" :> "a")>>, <<DefDict(NoFields)>>}

\* Argument lists of at most n ids, and two with an empty string.
IdLists(n) == UNION {[1..k -> Ids] : k \in 0..n} \cup {<<"a", "">>, <<"", "a">>}

\* The batch call leaves at most MaxBatchEdges edges in the graph.
BatchRoom(r) == Cardinality(r.graph.edges) <= MaxBatchEdges

\* A graph put together by the batch calls of a GraphBuilder, the fan calls
\* made around one of the first two ids.
NextBatch ==
    \/ \E node_defs \in NodeBatches : add_nodes(node_defs)
    \/ \E dep_defs \in DependencyBatches :
            BatchRoom(add_dependencies_loop(GraphOf, dep_defs, 1))
                /\ add_dependencies(dep_defs)
    \/ \E node_ids \in IdLists(MaxChain) :
            BatchRoom(add_chain_loop(GraphOf, node_ids, 1)) /\ add_chain(node_ids)
    \/ \E source \in {IdPool[1], IdPool[2]}, targets \in IdLists(MaxFan) :
            BatchRoom(add_fanout_loop(GraphOf, source, targets, 1))
                /\ add_fanout(source, targets)
    \/ \E target \in {IdPool[1], IdPool[2]}, sources \in IdLists(MaxFan) :
            BatchRoom(add_fanin_loop(GraphOf, target, sources, 1))
                /\ add_fanin(target, sources)

SpecBatch == Init /\ [][NextBatch]_vars

\* Construction of a graph interleaved with requests of its topology.
NextTopology ==
    \/ MutatePlain(MaxTopologyEdges)
    \/ get_topology

SpecTopology == Init /\ [][NextTopology]_vars

\* Connections made to the websocket endpoint, each served to its end, and
\* broadcasts to the connections registered.
NextSockets ==
    \/ \E websocket \in Sockets : websocket_endpoint(websocket)
    \/ \E websocket \in Sockets : accept_returns(websocket)
    \/ \E websocket \in Sockets : accept_raises(websocket)
    \/ \E websocket \in Sockets : await_returns(websocket)
    \/ \E websocket \in Sockets, error \in EndpointErrors : await_raises(websocket, error)
    \/ broadcast_begin
    \/ \E sent \in BOOLEAN : broadcast_resumes(sent)

SpecSockets == Init /\ [][NextSockets]_vars

\* ------------------------------------------------------------- properties
\* Notions the properties are stated in, defined apart from the algorithms.
EdgePairs == {<<e.source, e.target>> : e \in edges}
Successors(n) == {p[2] : p \in {q \in EdgePairs : q[1] = n}}
\* The nodes reachable from n along one or more edges.
ReachableFrom(n) == Closure(EdgePairs, Successors(n))
HasCycle == \E n \in NodeIds : n \in ReachableFrom(n)
\* The strongly connected component of n.
Component(n) == {n} \cup {m \in ReachableFrom(n) : n \in ReachableFrom(m)}
Elements(list) == {list[i] : i \in 1..Len(list)}
IsPermutationOf(list, S) == Len(list) = Cardinality(S) /\ Elements(list) = S
Position(list, x) == CHOOSE i \in 1..Len(list) : list[i] = x
AddNodeCalled == call.op = "add_node"
AddEdgeCalled == call.op = "add_edge"
CalledSource == call.args[1]
CalledTarget == call.args[2]
\* The ids joined by " -> ", built from the left.
RECURSIVE Arrows(_, _)
Arrows(list, n) ==
    IF n = 0 THEN ""
    ELSE IF n = 1 THEN list[1]
    ELSE Arrows(list, n - 1) \o " -> " \o list[n]

\* C1: after any sequence of add_node and add_edge calls, successful or
\* failing, every edge of the graph has its source and its target among the
\* keys of nodes.
C1_EdgeEndpointsExist ==
    \A e \in edges : e.source \in NodeIds /\ e.target \in NodeIds

\* A failing add_edge (unknown target) on a graph that already holds an edge.
C1_Witness ==
    /\ AddEdgeCalled
    /\ raised.exc = "ValueError"
    /\ CalledSource \in NodeIds
    /\ CalledTarget \in Ids \ NodeIds
    /\ edges # {}

C3_NoInvalidEdge ==
    /\ \A source \in StrInputs, target \in StrInputs :
          (source = "" \/ target = "" \/ source = target)
              => Edge(source, target, {}).raised.exc = "ValueError"
    /\ \A e \in edges : e.source # e.target /\ e.source # "" /\ e.target # ""
    /\ (AddEdgeCalled /\ (CalledSource = "" \/ CalledTarget = "" \/ CalledSource = CalledTarget))
          => raised.exc = "ValueError"

\* A self-loop on an existing node was asked for and refused.
C3_Witness ==
    /\ AddEdgeCalled
    /\ CalledSource = CalledTarget
    /\ CalledSource \in NodeIds
    /\ raised.exc = "ValueError"

\* C4: add_node with an id that is already a key raises the duplicate-node
\* error and leaves nodes (the stored node included), edges, both indexes and
\* the dirty flag as they were; with a new id the node is inserted and the
\* dirty flag set.
C4_AddNodeDuplicate ==
    [][(call'.op = "add_node" /\ call'.args[1] # "")
        => IF call'.args[1] \in NodeIds
           THEN /\ raised'.exc = "ValueError"
                /\ raised'.msg = "Node with id '" \o call'.args[1] \o "' already exists"
                /\ UNCHANGED <<nodes, edges, adjacency, reverse_adjacency, dirty>>
           ELSE /\ raised' = NoException
                /\ Len(nodes') = Len(nodes) + 1
                /\ SubSeq(nodes', 1, Len(nodes)) = nodes
                /\ nodes'[Len(nodes')].id = call'.args[1]
                /\ dirty'
                /\ UNCHANGED <<edges, adjacency, reverse_adjacency>>]_vars

\* A node offered under an id already taken, with another type, was refused
\* while the dirty flag was clear.
C4_Witness ==
    /\ AddNodeCalled
    /\ raised.exc = "ValueError"
    /\ CalledSource \in NodeIds
    /\ NodeAt(CalledSource).type # lower(call.args[2])
    /\ ~dirty

\* C5: add_edge with a missing endpoint raises the unknown-node error naming
\* that endpoint, the source when both are missing, and leaves nodes, edges,
\* both indexes and the dirty flag as they were.
C5_AddEdgeUnknownNode ==
    [][(/\ call'.op = "add_edge"
        /\ Edge(call'.args[1], call'.args[2], call'.args[3]).raised = NoException
        /\ (call'.args[1] \notin NodeIds \/ call'.args[2] \notin NodeIds))
        => /\ raised'.exc = "ValueError"
           /\ raised'.msg =
                IF call'.args[1] \notin NodeIds
                THEN "Source node '" \o call'.args[1] \o "' does not exist"
                ELSE "Target node '" \o call'.args[2] \o "' does not exist"
           /\ UNCHANGED <<nodes, edges, adjacency, reverse_adjacency, dirty>>]_vars

\* An edge between two unknown ids was refused, naming the source, while the
\* dirty flag was clear.
C5_Witness ==
    /\ AddEdgeCalled
    /\ CalledSource \in Ids \ NodeIds
    /\ CalledTarget \in Ids \ NodeIds
    /\ CalledSource # CalledTarget
    /\ raised.msg = "Source node '" \o CalledSource \o "' does not exist"
    /\ nodes # <<>>
    /\ ~dirty

\* C6: add_edge with an endpoint pair that is already in edges, whatever its
\* attributes, raises nothing and leaves edges (the stored attributes
\* included), both indexes and stats().edge_count as they were.
C6_AddEdgeIdempotent ==
    [][(/\ call'.op = "add_edge"
        /\ \E e \in edges : e.source = call'.args[1] /\ e.target = call'.args[2])
        => /\ raised' = NoException
           /\ UNCHANGED <<edges, adjacency, reverse_adjacency>>
           /\ stats_edge_count' = stats_edge_count]_vars

\* An edge was added again with attributes other than the stored ones.
C6_Witness ==
    /\ AddEdgeCalled
    /\ raised = NoException
    /\ \E e \in edges :
          /\ e.source = CalledSource
          /\ e.target = CalledTarget
          /\ e.metadata # call.args[3]
    /\ ~dirty

\* C7: find_cycles() is empty iff topological_sort() returns a permutation
\* of all node ids; otherwise topological_sort() returns None.
C7_CyclesEmptyIffTopologicalOrder ==
    \A ord \in IterOrders(adjacency, NodeIds), ord2 \in IterOrders(adjacency, NodeIds) :
        LET cycles == Graph_find_cycles(adjacency, ord).cycles
            order == Graph_topological_sort(adjacency, reverse_adjacency, ord2).value
        IN IF cycles = <<>>
           THEN order.some /\ IsPermutationOf(order.v, NodeIds)
           ELSE ~order.some

\* topological_sort returned None for a graph with a cycle among three nodes.
C7_Witness ==
    /\ call.op = "topological_sort"
    /\ ~ret.some
    /\ Len(nodes) = 3
    /\ HasCycle

\* C8: a list returned by topological_sort() has the source of every edge
\* before its target.
C8_TopologicalOrder ==
    \A ord \in IterOrders(adjacency, NodeIds) :
        LET order == Graph_topological_sort(adjacency, reverse_adjacency, ord).value IN
        order.some =>
            \A e \in edges : Position(order.v, e.source) < Position(order.v, e.target)

\* topological_sort returned an order for three nodes joined by edges.
C8_Witness ==
    /\ call.op = "topological_sort"
    /\ ret.some
    /\ Len(ret.v) = 3
    /\ Cardinality(edges) >= 2

\* C9: find_cycles() is non-empty iff the graph has a directed cycle, and for
\* every strongly connected component of two or more nodes it reports a
\* cycle lying in that component, whatever the insertion and iteration orders.
C9_CycleExistence ==
    \A ord \in IterOrders(adjacency, NodeIds) :
        LET cycles == Graph_find_cycles(adjacency, ord).cycles IN
        /\ (cycles # <<>>) <=> HasCycle
        /\ \A n \in NodeIds :
              Cardinality(Component(n)) >= 2
                  => \E i \in 1..Len(cycles) : Elements(cycles[i]) \subseteq Component(n)

\* find_cycles reported a cycle that the first node inserted is not part of.
C9_Witness ==
    /\ call.op = "find_cycles"
    /\ ret.v # <<>>
    /\ nodes[1].id \notin Elements(ret.v[1])

\* The number of messages the first loop of validate has to give.
MissingEndpoints ==
    Cardinality({e \in edges : e.source \notin NodeIds})
        + Cardinality({e \in edges : e.target \notin NodeIds})

\* C10: validate() is empty iff the graph is acyclic and has no dangling
\* edge; otherwise it is the dangling-endpoint entries followed by one entry
\* per cycle of find_cycles(), each the cycle's ids joined by " -> ".
C10_Validate ==
    \A edge_list \in Perms(Orphans), ord \in IterOrders(adjacency, NodeIds) :
        LET errors == Graph_validate(adjacency, edge_list, ord).errors
            cycles == Graph_find_cycles(adjacency, ord).cycles
        IN /\ (errors = <<>>) <=> (~HasCycle /\ MissingEndpoints = 0)
           /\ Len(errors) = MissingEndpoints + Len(cycles)
           /\ \A i \in 1..Len(cycles) :
                 errors[MissingEndpoints + i]
                    = "Cycle detected: " \o Arrows(cycles[i], Len(cycles[i]))

\* validate reported two cycles.
C10_Witness ==
    /\ call.op = "validate"
    /\ Len(ret.v) >= 2

\* The nodes from which n is reachable along one or more edges.
Ancestors(n) == {m \in NodeIds : n \in ReachableFrom(m)}

\* The values get_impact_radius(node_id, max_depth) can return in this state,
\* one per way of iterating the sets it traverses.
ImpactResults(node_id, max_depth) ==
    {Graph_get_impact_radius(reverse_adjacency, node_id, max_depth, ord).value :
        ord \in IterOrders(reverse_adjacency, Traversed(reverse_adjacency, node_id))}

\* The values get_critical_path(start, end) can return in this state.
PathResults(start, end) ==
    {Graph_get_critical_path(adjacency, start, end, ord).value :
        ord \in IterOrders(adjacency, Traversed(adjacency, start))}

\* C11: get_impact_radius(id) without a depth bound returns exactly the nodes
\* from which id is reachable along one or more edges, id itself left out
\* even when it lies on a cycle, and the empty set when id is not in the graph.
C11_ImpactRadiusUnbounded ==
    \A id \in StrInputs : \A r \in ImpactResults(id, Unbounded) :
        IF id \in NodeIds THEN r = Ancestors(id) \ {id} ELSE r = {}

\* An unbounded get_impact_radius on a node of a three-node cycle returned the
\* two other nodes: a depth bound of 1, 0 or -1 returns one node or none there.
C11_Witness ==
    /\ call.op = "get_impact_radius"
    /\ Len(nodes) = 3
    /\ \A n \in NodeIds : n \in ReachableFrom(n)
    /\ Cardinality(edges) = 3
    /\ Cardinality(ret.v) = 2

\* Depth bounds the monotonicity is checked for: a traversal is complete
\* after fewer than NumIds hops.
DepthRange == 0..NumIds

\* C12: get_impact_radius(n, 0) is empty; the result for max_depth = k is a
\* subset of the result for k + 1, for every k >= 0; the unbounded result
\* contains them all.
C12_ImpactRadiusMonotone ==
    \A n \in StrInputs :
        /\ \A r \in ImpactResults(n, Some(0)) : r = {}
        /\ \A k \in DepthRange :
              \A r \in ImpactResults(n, Some(k)) :
                 /\ \A r1 \in ImpactResults(n, Some(k + 1)) : r \subseteq r1
                 /\ \A ru \in ImpactResults(n, Unbounded) : r \subseteq ru

\* A get_impact_radius returned a non-empty set that is the unbounded result
\* of no node: the call had a depth bound, which cut the traversal short.
C12_Witness ==
    /\ call.op = "get_impact_radius"
    /\ ret.v # {}
    /\ \A n \in StrInputs : ret.v \notin ImpactResults(n, Unbounded)
    /\ \E n \in NodeIds :
          /\ ret.v \in ImpactResults(n, Some(1))
          /\ \E ru \in ImpactResults(n, Unbounded) : ret.v # ru /\ ret.v \subseteq ru

\* The nodes reachable from start along at most k edges.
RECURSIVE Within(_, _)
Within(start, k) ==
    IF k = 0 THEN {start}
    ELSE LET near == Within(start, k - 1) IN
         near \cup UNION {Successors(n) : n \in near}

\* C13: get_critical_path(start, end) returns None if start or end is not in
\* the graph or no directed path leads from start to end; otherwise a list
\* that begins with start, ends with end, has an edge between every two
\* consecutive elements and has the fewest hops of all such paths.
C13_CriticalPathShortest ==
    \A start \in StrInputs, end \in StrInputs : \A p \in PathResults(start, end) :
        IF start \notin NodeIds \/ end \notin NodeIds \/ end \notin Within(start, NumIds)
        THEN ~p.some
        ELSE /\ p.some
             /\ Len(p.v) >= 1
             /\ p.v[1] = start
             /\ p.v[Len(p.v)] = end
             /\ \A i \in 1..(Len(p.v) - 1) : <<p.v[i], p.v[i + 1]>> \in EdgePairs
             /\ \A k \in 0..(Len(p.v) - 2) : end \notin Within(start, k)

\* get_critical_path returned a one-hop path between two nodes that a
\* two-hop path joins as well.
C13_Witness ==
    /\ call.op = "get_critical_path"
    /\ ret.some
    /\ Len(ret.v) = 2
    /\ \E m \in NodeIds \ {ret.v[1], ret.v[2]} :
          /\ <<ret.v[1], m>> \in EdgePairs
          /\ <<m, ret.v[2]>> \in EdgePairs

\* C14: for every node a of the graph, get_critical_path(a, a) returns [a],
\* whether or not a lies on a cycle.
C14_CriticalPathToSelf ==
    \A a \in NodeIds : \A p \in PathResults(a, a) : p = Some(<<a>>)

\* get_critical_path returned the one-element path of a node that lies on a
\* cycle.
C14_Witness ==
    /\ call.op = "get_critical_path"
    /\ ret.some
    /\ Len(ret.v) = 1
    /\ ret.v[1] \in ReachableFrom(ret.v[1])

\* C15: for all ids s and t, t is in get_dependencies(s) iff s is in
\* get_dependents(t); for an id that is not in the graph both are empty, and
\* neither call raises.
C15_DependenciesDual ==
    /\ \A s \in StrInputs, t \in StrInputs :
          (t \in Graph_get_dependencies(s)) <=> (s \in Graph_get_dependents(t))
    /\ \A id \in StrInputs \ NodeIds :
          Graph_get_dependencies(id) = {} /\ Graph_get_dependents(id) = {}
    /\ call.op \in {"get_dependencies", "get_dependents"} =>
          /\ raised = NoException
          /\ ret.some
          /\ call.args[1] \notin NodeIds => ret.v = {}

\* get_dependents returned the sources of a node while another id was still
\* unknown to the graph and a key with an empty set had been materialised in
\* the reverse index.
C15_Witness ==
    /\ call.op = "get_dependents"
    /\ ret.v # {}
    /\ ret.v = {e.source : e \in {f \in edges : f.target = call.args[1]}}
    /\ Ids \ NodeIds # {}
    /\ \E k \in DOMAIN reverse_adjacency : reverse_adjacency[k] = {}

\* C16: after any sequence of add_node, add_edge, to_networkx and stats calls
\* the view to_networkx() returns (and stats() uses) has exactly the current
\* node ids and the current edge pairs; whenever the cached view differs from
\* nodes / edges the dirty flag is set.
C16_NoStaleView ==
    /\ DiNodeIds(Graph_to_networkx) = NodeIds
    /\ DiPairs(Graph_to_networkx) = EdgePairs
    /\ (nx_graph.some /\ (DiNodeIds(nx_graph.v) # NodeIds \/ DiPairs(nx_graph.v) # EdgePairs))
          => dirty
    /\ call.op = "to_networkx" =>
          DiNodeIds(ret.v) = NodeIds /\ DiPairs(ret.v) = EdgePairs

\* A view was cached by a read, a node and an edge were added since, and the
\* dirty flag is set: the next read rebuilds.
C16_Witness ==
    /\ AddEdgeCalled
    /\ raised = NoException
    /\ nx_graph.some
    /\ DiPairs(nx_graph.v) # EdgePairs
    /\ DiNodeIds(nx_graph.v) # NodeIds
    /\ dirty

\* C17: stats() reports node_count equal to the number of nodes, edge_count
\* equal to the number of edges, and is_dag true iff find_cycles() called in
\* the same state returns an empty list.
C17_StatsCounts ==
    LET now == Graph_stats(Graph_to_networkx)
        Agrees(st) ==
            /\ st.node_count = Cardinality(NodeIds)
            /\ st.edge_count = Cardinality(EdgePairs)
            /\ \A ord \in IterOrders(adjacency, NodeIds) :
                  st.is_dag <=> (Graph_find_cycles(adjacency, ord).cycles = <<>>)
    IN /\ Agrees(now)
       /\ call.op = "stats" => Agrees(ret.v)

\* stats reported a graph of three nodes and three edges that is not a DAG.
C17_Witness ==
    /\ call.op = "stats"
    /\ ~ret.v.is_dag
    /\ ret.v.node_count = 3
    /\ ret.v.edge_count = 3

\* The number of weakly connected components, counted without any traversal:
\* the most labels a labelling of the nodes can use when the two ends of every
\* edge carry the same label.
WeakComponentCount ==
    LET Labellings == [NodeIds -> 1..Cardinality(NodeIds)]
        Separated == {f \in Labellings : \A e \in edges : f[e.source] = f[e.target]}
        Used(f) == Cardinality({f[n] : n \in NodeIds})
    IN CHOOSE k \in 0..Cardinality(NodeIds) :
          /\ \E f \in Separated : Used(f) = k
          /\ \A f \in Separated : Used(f) <= k

\* C18: stats().connected_components is the number of weakly connected
\* components of the current graph; an isolated node counts as one component
\* and the empty graph has none.
C18_ConnectedComponents ==
    /\ Graph_stats(Graph_to_networkx).connected_components = WeakComponentCount
    /\ call.op = "stats" => ret.v.connected_components = WeakComponentCount
    /\ nodes = <<>> => Graph_stats(Graph_to_networkx).connected_components = 0
    /\ edges = {} => Graph_stats(Graph_to_networkx).connected_components = Len(nodes)

\* stats counted two components: two nodes joined by an edge and an isolated
\* node.
C18_Witness ==
    /\ call.op = "stats"
    /\ ret.v.connected_components = 2
    /\ Len(nodes) = 3
    /\ edges # {}

C20_OriginalTypeKept ==
    (/\ AddNodeCalled
     /\ raised = NoException
     /\ \A kv \in call.args[3] : kv[1] # "original_type")
        => LET node == nodes[Len(nodes)]
               kind == call.args[2]
           IN IF lower(kind) \in NodeTypeValues
              THEN /\ node.type = lower(kind)
                   /\ node.metadata = call.args[3]
              ELSE /\ node.type = "custom"
                   /\ <<"original_type", kind>> \in node.metadata

\* The elementary cycles of the graph: the sequences of two or more distinct
\* nodes with an edge from each to the next and from the last to the first.
SimpleCycles ==
    {c \in UNION {[1..k -> NodeIds] : k \in 2..Cardinality(NodeIds)} :
        /\ \A i \in 1..Len(c), j \in 1..Len(c) : i # j => c[i] # c[j]
        /\ \A i \in 1..(Len(c) - 1) : <<c[i], c[i + 1]>> \in EdgePairs
        /\ <<c[Len(c)], c[1]>> \in EdgePairs}

\* The closed list `reported` is the elementary cycle c up to rotation.
IsRotationOf(reported, c) ==
    /\ Len(reported) = Len(c) + 1
    /\ \E shift \in 0..(Len(c) - 1) :
          \A i \in 1..Len(reported) : reported[i] = c[((i - 1 + shift) % Len(c)) + 1]

\* The steps a reported list takes.
Steps(reported) == {<<reported[i], reported[i + 1]>> : i \in 1..(Len(reported) - 1)}

\* C26: find_cycles() reports, for every elementary cycle of the graph, a list
\* that is that cycle up to rotation.
C26_EveryElementaryCycle ==
    \A ord \in IterOrders(adjacency, NodeIds) :
        LET cycles == Graph_find_cycles(adjacency, ord).cycles IN
        \A c \in SimpleCycles : \E i \in 1..Len(cycles) : IsRotationOf(cycles[i], c)

\* C28: every list find_cycles() reports is a closed cycle of the graph: first
\* and last element equal, an edge of the graph from each element to the next,
\* and no node but the closing one twice.
C28_ReportedCyclesAreCycles ==
    \A ord \in IterOrders(adjacency, NodeIds) :
        LET cycles == Graph_find_cycles(adjacency, ord).cycles IN
        \A i \in 1..Len(cycles) :
            LET r == cycles[i] IN
            /\ Len(r) >= 3
            /\ r[1] = r[Len(r)]
            /\ Steps(r) \subseteq EdgePairs
            /\ \A j \in 1..(Len(r) - 1), k \in 1..(Len(r) - 1) : j # k => r[j] # r[k]

\* find_cycles reported a cycle of two nodes that the search entered from a
\* third node: the path was longer than the slice reported.
C28_Witness ==
    /\ call.op = "find_cycles"
    /\ \E i \in 1..Len(ret.v) :
          /\ Len(ret.v[i]) = 3
          /\ nodes[1].id \notin Elements(ret.v[i])
          /\ <<nodes[1].id, ret.v[i][1]>> \in EdgePairs

\* The nodes from which n is reachable along at most k edges, n included.
RECURSIVE BackWithin(_, _)
BackWithin(n, k) ==
    IF k <= 0 THEN {n}
    ELSE LET near == BackWithin(n, k - 1) IN
         near \cup {p[1] : p \in {q \in EdgePairs : q[2] \in near}}

\* Negative depth bounds passed to get_impact_radius.
NegativeDepths == {0 - 1, 0 - 2}

\* C29: for every k >= 0 and every node n of the graph,
\* get_impact_radius(n, k) is the set of nodes other than n whose shortest
\* directed path to n has between 1 and k edges; a negative max_depth gives
\* the empty set.
C29_ImpactRadiusByDistance ==
    \A n \in NodeIds :
        /\ \A k \in DepthRange : \A r \in ImpactResults(n, Some(k)) :
              r = BackWithin(n, k) \ {n}
        /\ \A k \in NegativeDepths : \A r \in ImpactResults(n, Some(k)) : r = {}

\* get_impact_radius returned one node of a chain of three: the direct
\* dependent of the chain's end, the call having stopped after one hop.
C29_Witness ==
    /\ call.op = "get_impact_radius"
    /\ Len(nodes) = 3
    /\ Cardinality(edges) = 2
    /\ \E n \in NodeIds, m \in NodeIds, far \in NodeIds :
          /\ Cardinality({n, m, far}) = 3
          /\ EdgePairs = {<<far, m>>, <<m, n>>}
          /\ ret.v = {m}

\* The ids an index mentions, as a key or as a member.
IndexIds(index) == DOMAIN index \cup UNION {index[k] : k \in DOMAIN index}

\* C21: deleting a node fails with the unknown-node error for an absent id
\* and leaves the graph as it was; otherwise it removes the node and exactly
\* the edges in which it is source or target, after which nodes, edges, both
\* indexes and the view stats() computes on do not mention the id, every
\* edge has both endpoints in nodes and the indexes are the duals of edges.
C21_DeleteNode ==
    [][call'.op = "delete_node" =>
        LET id == call'.args[1] IN
        IF id \notin NodeIds
        THEN /\ raised'.exc = "ValueError"
             /\ UNCHANGED graph
        ELSE /\ raised' = NoException
             /\ NodeIds' = NodeIds \ {id}
             /\ \A i \in 1..Len(nodes') : nodes'[i] = NodeAt(nodes'[i].id)
             /\ edges' = {e \in edges : e.source # id /\ e.target # id}
             /\ id \notin IndexIds(adjacency') \cup IndexIds(reverse_adjacency')
             /\ \A e \in edges' : e.source \in NodeIds' /\ e.target \in NodeIds'
             /\ IndexPairs(adjacency') = EdgePairs'
             /\ {<<p[2], p[1]>> : p \in IndexPairs(reverse_adjacency')} = EdgePairs'
             /\ DiNodeIds(Graph_to_networkx') = NodeIds \ {id}
             /\ stats_node_count' = Len(nodes) - 1
             /\ stats_edge_count' = Cardinality({p \in EdgePairs : id \notin {p[1], p[2]}})
    ]_vars

\* A node was deleted that had an incoming and an outgoing edge, both still
\* shown by the view cached before the deletion.
C21_Witness ==
    /\ call.op = "delete_node"
    /\ raised = NoException
    /\ call.args[1] \notin NodeIds
    /\ nx_graph.some
    /\ \E p \in DiPairs(nx_graph.v), q \in DiPairs(nx_graph.v) :
          p[1] = call.args[1] /\ q[2] = call.args[1]

\* C27: topological_sort() returns the same order whenever it runs on a
\* graph built by the same calls, whichever way the interpreter iterates the
\* neighbor sets.
C27_TopologicalSortDeterministic ==
    \A ord \in IterOrders(adjacency, NodeIds), other \in IterOrders(adjacency, NodeIds) :
        Graph_topological_sort(adjacency, reverse_adjacency, ord).value
            = Graph_topological_sort(adjacency, reverse_adjacency, other).value

\* The direct calls add_edge(Edge(source, target)) for the pairs of a list,
\* issued in order until one of them raises.
RECURSIVE DirectCalls(_, _)
DirectCalls(g, pairs) ==
    IF pairs = <<>> THEN Done(g)
    ELSE LET r == add_dependency(g, Head(pairs)[1], Head(pairs)[2]) IN
         IF r.raised # NoException THEN r ELSE DirectCalls(r.graph, Tail(pairs))

\* The calls each convenience call stands for.
ChainPairs(n) == [i \in 1..(Len(n) - 1) |-> <<n[i], n[i + 1]>>]
FanoutPairs(s, t) == [i \in 1..Len(t) |-> <<s, t[i]>>]
FaninPairs(t, s) == [i \in 1..Len(s) |-> <<s[i], t>>]

\* C23: add_chain(n1..nk) leaves the graph, and raises, as the calls
\* add_edge(n_i, n_i+1) for i = 1..k-1 issued in order (nothing for k <= 1),
\* add_fanout(s, t1..tk) as add_edge(s, t_i), and add_fanin(t, s1..sk) as
\* add_edge(s_i, t).
C23_BuilderCallsAsDirectCalls ==
    [][LET Same(pairs) == Raise(raised', GraphOf') = DirectCalls(GraphOf, pairs) IN
       /\ call'.op = "add_chain" => Same(ChainPairs(call'.args[1]))
       /\ call'.op = "add_fanout" => Same(FanoutPairs(call'.args[1], call'.args[2]))
       /\ call'.op = "add_fanin" => Same(FaninPairs(call'.args[1], call'.args[2]))
    ]_vars

\* add_fanin inserted one edge and then raised on an unknown source: the
\* first insertion stays.
C23_Witness ==
    /\ call.op = "add_fanin"
    /\ raised.exc = "ValueError"
    /\ Len(call.args[2]) = 2
    /\ call.args[2][1] \in NodeIds
    /\ call.args[2][2] \in Ids \ NodeIds
    /\ EdgePairs = {<<call.args[2][1], call.args[1]>>}

\* C22: ingesting the export of a graph gives a graph with the same node
\* ids, the same kind for every node, the same endpoint pairs and the same
\* statistics.
C22_RoundTrip ==
    [][(call.op = "to_dict" /\ call'.op = "parse_dict" /\ call'.args[1] = ret.v) =>
          /\ raised' = NoException
          /\ NodeIds' = NodeIds
          /\ \A i \in 1..Len(nodes) : \E j \in 1..Len(nodes') :
                nodes'[j].id = nodes[i].id /\ nodes'[j].type = nodes[i].type
          /\ EdgePairs' = EdgePairs
          /\ Graph_stats(Graph_to_networkx)' = ret.v.stats.v
    ]_vars

\* The export of a graph with a node of a type outside the enumeration, a
\* node of an enumerated type and an edge with metadata has been ingested.
C22_Witness ==
    /\ call.op = "parse_dict"
    /\ call.args[1].stats.some
    /\ raised = NoException
    /\ \E i \in 1..Len(nodes) :
          nodes[i].type = "custom" /\ \E kv \in nodes[i].metadata : kv[1] = "original_type"
    /\ \E i \in 1..Len(nodes) : nodes[i].type = "database"
    /\ \E e \in edges : e.metadata # {}

\* The records the adapter cannot decode, read off the document.
KeyedWithout(def, keys) == \A k \in keys : DictGet(def.fields, k, "") = ""
MalformedNode(def) == def.kind = "dict" /\ KeyedWithout(def, {"id"})
MalformedEdge(def) ==
    \/ def.kind = "dict"
            /\ (KeyedWithout(def, {"source", "from"}) \/ KeyedWithout(def, {"target", "to"}))
    \/ def.kind = "str" /\ "->" \notin Elements(def.text)
    \/ def.kind = "list" /\ Len(def.items) # 2

\* The decoding error of a malformed edge record.
EdgeDecodingError(def) ==
    CASE def.kind = "dict" -> ValueError("Dependency missing source or target: {...}")
      [] def.kind = "str" ->
            ValueError("Invalid dependency string format: " \o str(def.text))
      [] OTHER ->
            ValueError("Dependency list must have exactly 2 elements: ["
                           \o join(", ", Quoted(def.items)) \o "]")

\* The malformed records of a document, and the document without them.
MalformedNodes(data) == SelectSeq(NodesData(data), MalformedNode)
MalformedEdges(data) == SelectSeq(DependenciesData(data), MalformedEdge)
Repaired(data) ==
    LET GoodNode(def) == ~MalformedNode(def)
        GoodEdge(def) == ~MalformedEdge(def)
    IN [has_nodes |-> TRUE, nodes |-> SelectSeq(NodesData(data), GoodNode),
        has_dependencies |-> TRUE,
        dependencies |-> SelectSeq(DependenciesData(data), GoodEdge),
        has_edges |-> FALSE, edges |-> <<>>, stats |-> None]

\* The decoding error of the malformed record the adapter meets first: the
\* node records come before the edge records.
FirstDecodingError(data) ==
    IF MalformedNodes(data) # <<>>
    THEN ValueError("Node definition missing 'id' field")
    ELSE EdgeDecodingError(Head(MalformedEdges(data)))

\* C24: ingesting a document with a keyed node record without a non-empty
\* id, a keyed edge record without a source or without a target, an edge
\* string without "->" or an edge list not of two elements raises and returns
\* no graph; when the document has no other defect, the error raised is the
\* decoding error of the first such record.
C24_DecodingErrors ==
    [][call'.op = "parse_dict" =>
          LET data == call'.args[1] IN
          (MalformedNodes(data) # <<>> \/ MalformedEdges(data) # <<>>) =>
              /\ raised'.exc = "ValueError"
              /\ ret' = None
              /\ UNCHANGED graph
              /\ YAMLParser_parse_dict(Repaired(data)).raised = NoException =>
                    raised' = FirstDecodingError(data)
    ]_vars

\* An edge list of three elements was refused while the caller held a graph:
\* the graph is the one ingested before.
C24_Witness ==
    /\ call.op = "parse_dict"
    /\ raised = ValueError("Dependency list must have exactly 2 elements: ['a', 'b', 'c']")
    /\ Len(nodes) = 3
    /\ edges # {}

\* The ids a node list declares and the endpoint pairs a dependency list
\* names, for lists whose records all decode.
Declared(data) ==
    {parse_node(NodesData(data)[i]).value.id : i \in 1..Len(NodesData(data))}
Named(data) ==
    [i \in 1..Len(DependenciesData(data)) |->
        LET e == parse_dependency(DependenciesData(data)[i]).value IN <<e.source, e.target>>]
Decodes(data) ==
    /\ parse_nodes(NewGraph, NodesData(data), 1).raised = NoException
    /\ \A i \in 1..Len(DependenciesData(data)) :
          parse_dependency(DependenciesData(data)[i]).raised = NoException

\* C25: in a document whose node list is ingested without error and whose
\* edge records all decode, edges between declared ids are all in the graph
\* returned, wherever in the node list the ids are declared; the first edge
\* with an undeclared endpoint makes the ingestion raise the error of
\* add_edge for that endpoint, and no graph is returned.
C25_NodesBeforeEdges ==
    [][call'.op = "parse_dict" =>
          LET data == call'.args[1]
              named == Named(data)
              Undeclared(p) == p[1] \notin Declared(data) \/ p[2] \notin Declared(data)
              missing == SelectSeq(named, Undeclared)
          IN Decodes(data) =>
                IF missing = <<>>
                THEN /\ raised' = NoException
                     /\ NodeIds' = Declared(data)
                     /\ EdgePairs' = Elements(named)
                ELSE /\ raised' =
                            IF Head(missing)[1] \notin Declared(data)
                            THEN ValueError("Source node '" \o Head(missing)[1]
                                                \o "' does not exist")
                            ELSE ValueError("Target node '" \o Head(missing)[2]
                                                \o "' does not exist")
                     /\ ret' = None
                     /\ UNCHANGED graph
    ]_vars

\* A document was ingested whose first edge starts at the node declared
\* last.
C25_Witness ==
    /\ call.op = "parse_dict"
    /\ raised = NoException
    /\ Len(nodes) >= 2
    /\ Named(call.args[1]) # <<>>
    /\ Named(call.args[1])[1][1] = nodes[Len(nodes)].id
    /\ Named(call.args[1])[1] \in EdgePairs

\* The flag says the cached view is current, and it is not.
StaleClean == ~dirty /\ nx_graph.some /\ nx_graph.v # BuildDiGraph
\* The same with no call in progress: nothing is left to set the flag again.
InvalidationLost == Quiescent /\ StaleClean

\* C30: with calls overlapping, the graph comes to rest with the flag clear
\* and the cached view stale only by to_networkx clearing the flag after a
\* mutation that ran since its rebuild began; calls that do not overlap
\* never bring it there.
C30_LostInvalidation ==
    [][(InvalidationLost' /\ ~InvalidationLost) =>
            /\ running.reader = "clear"
            /\ running'.reader = "idle"
            /\ <<Len(nodes), Cardinality(edges)>> # running.began
    ]_vars

\* stats() was called after an invalidation was lost: it counted the nodes
\* of the graph and read a cached view that lacks one of them.
C30_Witness ==
    /\ call.op = "stats"
    /\ InvalidationLost
    /\ ret.v.node_count = Len(nodes)
    /\ Cardinality(DiNodeIds(nx_graph.v)) < Len(nodes)
    /\ ret.v.connected_components < WeakComponentCount

\* The query operations of the graph.
QueryOps ==
    {"get_dependencies", "get_dependents", "validate", "find_cycles",
     "topological_sort", "get_impact_radius", "get_critical_path"}

\* C31: a call of get_dependencies, get_dependents, validate, find_cycles,
\* topological_sort, get_impact_radius or get_critical_path leaves nodes,
\* edges, the dirty flag and both adjacency maps, key sets included, as they
\* were before the call.
C31_QueriesLeaveGraphUnchanged ==
    [][call'.op \in QueryOps =>
            UNCHANGED <<nodes, edges, dirty, adjacency, reverse_adjacency>>]_vars

\* The degree entries of the statistics st of a graph that has nodes: both
\* averages are the quotient edge_count / node_count, which says both degree
\* sums are edge_count, and no degree reaches node_count.
DegreesAgree(st) ==
    /\ st.has_degrees
    /\ st.avg_in_degree = Ratio(st.edge_count, st.node_count)
    /\ st.avg_out_degree = Ratio(st.edge_count, st.node_count)
    /\ st.max_in_degree <= st.node_count - 1
    /\ st.max_out_degree <= st.node_count - 1

\* C32: on every non-empty graph stats() finds the in-degrees and the
\* out-degrees each summing to edge_count, so that avg_in_degree and
\* avg_out_degree both are edge_count / node_count, and max_in_degree and
\* max_out_degree are each at most node_count - 1.
C32_DegreeSums ==
    Len(nodes) > 0 =>
        /\ DegreesAgree(Graph_stats(Graph_to_networkx))
        /\ call.op = "stats" =>
              /\ DegreesAgree(ret.v)
              /\ ret.v.edge_count = Cardinality(edges)
              /\ ret.v.node_count = Len(nodes)

\* stats reported three edges on three nodes, one node with two incoming
\* edges and one with two outgoing: the averages are 3/3 and both maxima
\* reach node_count - 1.
C32_Witness ==
    /\ call.op = "stats"
    /\ ret.v.node_count = 3
    /\ ret.v.edge_count = 3
    /\ ret.v.avg_in_degree = Ratio(3, 3)
    /\ ret.v.avg_out_degree = Ratio(3, 3)
    /\ ret.v.max_in_degree = 2
    /\ ret.v.max_out_degree = 2

\* What a definition given to add_nodes or add_dependencies stands for: the
\* id of a node, the endpoint pair of an edge; <<>> for a definition that
\* stands for none.
NodeIdOf(def) ==
    CASE def.kind = "Node" -> <<def.fields["id"]>>
      [] def.kind = "dict" /\ "node_id" \in DOMAIN def.fields -> <<def.fields["node_id"]>>
      [] def.kind = "str" -> <<str(def.text)>>
      [] OTHER -> <<>>
PairOf(def) ==
    CASE def.kind \in {"Edge", "list"} /\ Len(def.items) = 2 -> def.items
      [] def.kind = "dict" /\ {"source", "target"} \subseteq DOMAIN def.fields ->
            <<def.fields["source"], def.fields["target"]>>
      [] def.kind = "str" /\ "->" \in Elements(def.text) ->
            LET at == CHOOSE i \in 1..Len(def.text) :
                          def.text[i] = "->" /\ \A k \in 1..(i - 1) : def.text[k] # "->"
                Words(from, to) ==
                    str(SelectSeq(SubSeq(def.text, from, to), LAMBDA w : w # " "))
            IN <<Words(1, at - 1), Words(at + 1, Len(def.text))>>
      [] OTHER -> <<>>

\* The elements of the batch call made last: ids for add_nodes, endpoint
\* pairs for the other four.
BatchOps == {"add_nodes", "add_dependencies", "add_chain", "add_fanout", "add_fanin"}
BatchElements(c) ==
    CASE c.op = "add_nodes" -> [i \in 1..Len(c.args[1]) |-> NodeIdOf(c.args[1][i])]
      [] c.op = "add_dependencies" -> [i \in 1..Len(c.args[1]) |-> PairOf(c.args[1][i])]
      [] c.op = "add_chain" -> ChainPairs(c.args[1])
      [] c.op = "add_fanout" -> FanoutPairs(c.args[1], c.args[2])
      [] c.op = "add_fanin" -> FaninPairs(c.args[1], c.args[2])
      [] OTHER -> <<>>

\* Element i of the list fails when the call was made on a graph with the
\* node ids N: a node element that stands for no id, for the empty id, or for
\* an id that N or an earlier element holds; an edge element that stands for
\* no pair, or for a pair with an empty or unknown endpoint or with two equal
\* ones.
FailsAt(op, elements, i, N) ==
    LET x == elements[i] IN
    IF op = "add_nodes"
    THEN \/ x = <<>>
         \/ x[1] = ""
         \/ x[1] \in N
         \/ \E k \in 1..(i - 1) : elements[k] = x
    ELSE \/ x = <<>>
         \/ x[1] = "" \/ x[2] = ""
         \/ x[1] = x[2]
         \/ x[1] \notin N \/ x[2] \notin N

\* The number of elements before the first that fails.
Applied(op, elements, N) ==
    LET failing == {i \in 1..Len(elements) : FailsAt(op, elements, i, N)} IN
    IF failing = {} THEN Len(elements)
    ELSE (CHOOSE j \in failing : \A i \in failing : j <= i) - 1

\* C33: a batch call of the builder (add_chain, add_fanout, add_fanin,
\* add_nodes, add_dependencies) raises exactly when one of its elements
\* fails, and then it is not undone: the nodes and edges of the elements
\* before the first failing one are in the graph, and nothing of the elements
\* after it is applied.
C33_BatchNotAtomic ==
    [][call'.op \in BatchOps =>
          LET op == call'.op
              elements == BatchElements(call')
              done == Applied(op, elements, NodeIds)
          IN /\ (raised' # NoException) <=> (done < Len(elements))
             /\ IF op = "add_nodes"
                THEN /\ NodeOrder' = NodeOrder \o [i \in 1..done |-> elements[i][1]]
                     /\ EdgePairs' = EdgePairs
                ELSE /\ EdgePairs' = EdgePairs \cup {elements[i] : i \in 1..done}
                     /\ nodes' = nodes
    ]_vars

\* add_dependencies was given three definitions and raised on the second, a
\* self-loop: the edge of the first is in the graph, that of the third,
\* between nodes of the graph, is not.
C33_Witness ==
    /\ call.op = "add_dependencies"
    /\ raised = ValueError("Self-loops not allowed: b -> b")
    /\ Len(call.args[1]) = 3
    /\ PairOf(call.args[1][1]) \in EdgePairs
    /\ PairOf(call.args[1][3]) \notin EdgePairs
    /\ Elements(PairOf(call.args[1][3])) \subseteq NodeIds

\* The edge a reported list closes with: the one examined while its target
\* was on the recursion stack.
BackEdge(reported) == <<reported[Len(reported) - 1], reported[Len(reported)]>>

\* C34: find_cycles() reports one cycle per DFS back edge: the reported lists
\* close with pairwise distinct edges of the graph, so they are no more than
\* the edges, and no two of them are equal or rotations of one another.
C34_OneCyclePerBackEdge ==
    \A ord \in IterOrders(adjacency, NodeIds) :
        LET cycles == Graph_find_cycles(adjacency, ord).cycles IN
        /\ Len(cycles) <= Cardinality(edges)
        /\ \A i \in 1..Len(cycles) :
              /\ Len(cycles[i]) >= 2
              /\ BackEdge(cycles[i]) \in EdgePairs
        /\ \A i \in 1..Len(cycles), j \in 1..Len(cycles) :
              i # j =>
                 /\ BackEdge(cycles[i]) # BackEdge(cycles[j])
                 /\ cycles[i] # cycles[j]
                 /\ ~IsRotationOf(cycles[i], SubSeq(cycles[j], 1, Len(cycles[j]) - 1))

\* find_cycles reported three cycles on a graph of three nodes, two of them
\* through the same two nodes in the same order.
C34_Witness ==
    /\ call.op = "find_cycles"
    /\ Len(ret.v) = 3
    /\ Len(nodes) = 3
    /\ \E i \in 1..3, j \in 1..3 :
          /\ Len(ret.v[i]) = 4
          /\ Len(ret.v[j]) = 3
          /\ Steps(ret.v[j]) \cap Steps(ret.v[i]) # {}

\* C35: the /topology handler answers is_dag true, with a topological order
\* of all nodes, for every graph without a cycle, the empty graph included,
\* and answers is_dag false only for a graph with a cycle.
C35_TopologyOfAcyclicGraphs ==
    call.op = "get_topology" =>
        /\ ~HasCycle =>
              /\ ret.v.is_dag
              /\ ret.v.order.some
              /\ IsPermutationOf(ret.v.order.v, NodeIds)
        /\ ~ret.v.is_dag => HasCycle

\* The endpoint of the connection has got past accept() and has not ended.
Serving(websocket) == handlers[websocket].pc \in {"initial", "receive", "ping"}

C37_BroadcastUnderInterleaving ==
    [][(broadcasting.pc = "sending" /\ broadcasting'.pc # "sending") =>
          /\ broadcasting'.pc = "done"
          /\ broadcasting'.error = NoException
          /\ broadcasting'.started \subseteq broadcasting'.attempted
          /\ active_connections' \cap broadcasting'.failed = {}
          /\ (broadcasting'.attempted \ (broadcasting'.failed \cup broadcasting'.left))
                \subseteq active_connections'
    ]_vars

====
